---- MODULE Spec2Model ----
(***************************************************************************)
(* Modbus master over the ASCII framing: the ClientHandler (request        *)
(* orchestrator), the ASCIIPackager (Encode / Verify / Decode / exchange   *)
(* loop), the longitudinal checksum and the three transports.              *)
(*                                                                         *)
(* Bytes are integers 0..255; a frame is a sequence of bytes (TLA+         *)
(* sequences are 1-based, Go slices 0-based: adu[k] in Go is adu[k+1]).    *)
(***************************************************************************)
EXTENDS Integers, Sequences, FiniteSets, TLC

(***************************************************************************)
(* Program constants                                                       *)
(***************************************************************************)
asciiStart == 58
asciiMinSize == 3
asciiMaxSize == 513
CR == 13
LF == 10
asciiEnd == <<CR, LF>>
hexTable == <<48, 49, 50, 51, 52, 53, 54, 55, 56, 57, 65, 66, 67, 68, 69, 70>>

FuncCodeReadCoils == 1
FuncCodeReadDiscreteInputs == 2
FuncCodeReadHoldingRegisters == 3
FuncCodeReadInputRegisters == 4
FuncCodeWriteSingleCoil == 5
FuncCodeWriteSingleRegister == 6
FuncCodeWriteMultipleCoils == 15
FuncCodeWriteMultipleRegisters == 16
FuncCodeMaskWriteRegister == 22
FuncCodeReadWriteMultipleRegisters == 23
FuncCodeReadFIFOQueue == 24

MaxCoilsRead == 2000
MaxRegistersRead == 125
MaxCoilsWrite == 1968
MaxRegistersWrite == 123
MaxRegistersReadWrite == 121
MaxFIFOCount == 31

(***************************************************************************)
(* Byte and slice helpers                                                  *)
(***************************************************************************)
Min(a, b) == IF a < b THEN a ELSE b

\* Go's s[lo:hi] on a 0-based slice.
Slice(s, lo, hi) == [i \in 1..(hi - lo) |-> s[lo + i]]

\* binary.BigEndian.Uint16(b) and PutUint16.
Uint16(b) == b[1] * 256 + b[2]
PutUint16(v) == <<v \div 256, v % 256>>

(***************************************************************************)
(* Longitudinal redundancy check                                           *)
(***************************************************************************)
\* The 8-bit wrapping sum of sum and data[lo..hi].  The code adds the bytes one
\* by one; addition modulo 256 is associative, so the halves may be summed
\* apart (which keeps the evaluation shallow on a 252-byte payload).
RECURSIVE sumRange(_, _, _)
sumRange(data, lo, hi) ==
    IF lo > hi THEN 0
    ELSE IF lo = hi THEN data[lo] % 256
    ELSE LET mid == (lo + hi) \div 2
         IN  (sumRange(data, lo, mid) + sumRange(data, mid + 1, hi)) % 256

\* lrc.pushByte: one 8-bit wrapping addition.
pushByte(sum, b) == (sum + b) % 256

\* lrc.pushBytes: the 8-bit wrapping sum of sum and every byte of data.
pushBytes(sum, data) == (sum + sumRange(data, 1, Len(data))) % 256

\* A value that keeps the sum's one's complement.
lrcValue_OnesComplement(sum) == 255 - sum

\* lrc.value: uint8(-int8(sum)).  int8(sum) reads the 8 bits as a signed
\* number, the negation wraps within int8 (-(-128) is -128), and uint8 reads
\* the 8 bits as unsigned again.
lrcValue(sum) ==
    LET signed == IF sum >= 128 THEN sum - 256 ELSE sum
        negated == IF -signed > 127 THEN -signed - 256 ELSE -signed
    IN  IF negated < 0 THEN negated + 256 ELSE negated

\* reset().pushByte(slaveID).pushByte(fc).pushBytes(data).value()
lrcOf(slaveID, fc, data) ==
    lrcValue(pushBytes(pushByte(pushByte(0, slaveID), fc), data))

(***************************************************************************)
(* Hexadecimal text                                                        *)
(***************************************************************************)
\* A writeHex that puts the low nibble first.
writeHex_LowNibbleFirst(value) ==
    [i \in 1..(2 * Len(value)) |->
        IF i % 2 = 1 THEN hexTable[(value[(i + 1) \div 2] % 16) + 1]
        ELSE hexTable[(value[i \div 2] \div 16) + 1]]

\* writeHex: every byte as two upper-case hexadecimal characters.
writeHex(value) ==
    [i \in 1..(2 * Len(value)) |->
        IF i % 2 = 1 THEN hexTable[(value[(i + 1) \div 2] \div 16) + 1]
        ELSE hexTable[(value[i \div 2] % 16) + 1]]

\* encoding/hex's fromHexChar: digits, a-f and A-F; -1 for any other byte.
fromHexChar(c) ==
    IF c >= 48 /\ c <= 57 THEN c - 48
    ELSE IF c >= 97 /\ c <= 102 THEN c - 97 + 10
    ELSE IF c >= 65 /\ c <= 70 THEN c - 65 + 10
    ELSE -1

\* hex.Decode(dst, src) for src of even length: the decoded bytes, or an error
\* at the first byte that is no hexadecimal character.
hexDecode(src) ==
    LET n == Len(src) \div 2
        bad == \E i \in 1..(2 * n) : fromHexChar(src[i]) = -1
    IN  IF bad THEN [err |-> "hex", bytes |-> <<>>]
        ELSE [err |-> "nil",
              bytes |-> [i \in 1..n |->
                  fromHexChar(src[2 * i - 1]) * 16 + fromHexChar(src[2 * i])]]

\* readHex(data): the byte spelled by data[0:2].
readHex(data) ==
    LET r == hexDecode(Slice(data, 0, 2))
    IN  IF r.err = "nil" THEN [err |-> "nil", value |-> r.bytes[1]]
        ELSE [err |-> "hex", value |-> 0]

(***************************************************************************)
(* ASCIIPackager                                                           *)
(***************************************************************************)
\* Encode: ':' unit id, function code, data, LRC (all hexadecimal), CR LF.
Encode(slaveID, pdu) ==
    <<asciiStart>> \o writeHex(<<slaveID, pdu.FunctionCode>>) \o writeHex(pdu.Data)
        \o writeHex(<<lrcOf(slaveID, pdu.FunctionCode, pdu.Data)>>) \o asciiEnd

\* Verify without the comparison of the unit ids.
Verify_NoSlaveID(aduRequest, aduResponse) ==
    LET length == Len(aduResponse)
    IN  IF length < asciiMinSize + 6 THEN "short"
        ELSE IF length % 2 # 1 THEN "even"
        ELSE IF aduResponse[1] # asciiStart THEN "start"
        ELSE IF Slice(aduResponse, length - 2, length) # asciiEnd THEN "end"
        ELSE IF readHex(Slice(aduResponse, 1, length)).err # "nil" THEN "hex"
        ELSE "nil"

\* Verify without the test on the parity of the length.
Verify_AnyParity(aduRequest, aduResponse) ==
    LET length == Len(aduResponse)
    IN  IF length < asciiMinSize + 6 THEN "short"
        ELSE IF aduResponse[1] # asciiStart THEN "start"
        ELSE IF Slice(aduResponse, length - 2, length) # asciiEnd THEN "end"
        ELSE LET responseVal == readHex(Slice(aduResponse, 1, length))
                 requestVal == readHex(Slice(aduRequest, 1, Len(aduRequest)))
             IN  IF responseVal.err # "nil" THEN "hex"
                 ELSE IF requestVal.err # "nil" THEN "hex"
                 ELSE IF responseVal.value # requestVal.value THEN "slaveid"
                 ELSE "nil"

\* Verify: "nil" or the kind of error, checked in the code's order.
Verify(aduRequest, aduResponse) ==
    LET length == Len(aduResponse)
    IN  IF length < asciiMinSize + 6 THEN "short"
        ELSE IF length % 2 # 1 THEN "even"
        ELSE IF aduResponse[1] # asciiStart THEN "start"
        ELSE IF Slice(aduResponse, length - 2, length) # asciiEnd THEN "end"
        ELSE LET responseVal == readHex(Slice(aduResponse, 1, length))
                 requestVal == readHex(Slice(aduRequest, 1, Len(aduRequest)))
             IN  IF responseVal.err # "nil" THEN "hex"
                 ELSE IF requestVal.err # "nil" THEN "hex"
                 ELSE IF responseVal.value # requestVal.value THEN "slaveid"
                 ELSE "nil"

\* A Decode that reads the checksum and does not compare it.
Decode_NoLRC(adu) ==
    LET address == readHex(Slice(adu, 1, Len(adu)))
        fc == readHex(Slice(adu, 3, Len(adu)))
        dataEnd == Len(adu) - 4
        data == hexDecode(Slice(adu, 5, dataEnd))
        lrcVal == readHex(Slice(adu, dataEnd, Len(adu)))
    IN  IF address.err # "nil" THEN [err |-> "hex", FunctionCode |-> 0, Data |-> <<>>]
        ELSE IF fc.err # "nil" THEN [err |-> "hex", FunctionCode |-> 0, Data |-> <<>>]
        ELSE IF data.err # "nil"
            THEN [err |-> "hex", FunctionCode |-> fc.value, Data |-> <<>>]
        ELSE IF lrcVal.err # "nil"
            THEN [err |-> "hex", FunctionCode |-> fc.value, Data |-> data.bytes]
        ELSE [err |-> "nil", FunctionCode |-> fc.value, Data |-> data.bytes]

\* Decode: the PDU of a frame and "nil", or the kind of error.  The caller
\* passes frames that Verify accepted (odd length, at least 9).
Decode(adu) ==
    LET address == readHex(Slice(adu, 1, Len(adu)))
        fc == readHex(Slice(adu, 3, Len(adu)))
        dataEnd == Len(adu) - 4
        data == hexDecode(Slice(adu, 5, dataEnd))
        lrcVal == readHex(Slice(adu, dataEnd, Len(adu)))
    IN  IF address.err # "nil" THEN [err |-> "hex", FunctionCode |-> 0, Data |-> <<>>]
        ELSE IF fc.err # "nil" THEN [err |-> "hex", FunctionCode |-> 0, Data |-> <<>>]
        ELSE IF data.err # "nil"
            THEN [err |-> "hex", FunctionCode |-> fc.value, Data |-> <<>>]
        ELSE IF lrcVal.err # "nil"
            THEN [err |-> "hex", FunctionCode |-> fc.value, Data |-> data.bytes]
        ELSE IF lrcVal.value # lrcOf(address.value, fc.value, data.bytes)
            THEN [err |-> "lrc", FunctionCode |-> fc.value, Data |-> data.bytes]
        ELSE [err |-> "nil", FunctionCode |-> fc.value, Data |-> data.bytes]

(***************************************************************************)
(* ClientHandler: request data, argument limits, response parsing          *)
(***************************************************************************)
\* dataBlock(value...): each uint16 big-endian.
dataBlock(value) ==
    [i \in 1..(2 * Len(value)) |->
        IF i % 2 = 1 THEN value[(i + 1) \div 2] \div 256 ELSE value[i \div 2] % 256]

\* dataBlockSuffix(suffix, value...): the uint16s, uint8(len(suffix)), suffix.
dataBlockSuffix(suffix, value) ==
    dataBlock(value) \o <<Len(suffix) % 256>> \o suffix

\* bytesToWordArray: big-endian pairs; a last odd byte is a word of its own.
bytesToWordArray(bytes) ==
    LET l == Len(bytes)
        n == (l + 1) \div 2
    IN  [i \in 1..n |->
            IF 2 * i > l THEN bytes[2 * i - 1]
            ELSE bytes[2 * i - 1] * 256 + bytes[2 * i]]

\* wordsToByteArray: each word as two bytes, high byte first.
wordsToByteArray(words) == dataBlock(words)

\* filter(s, fn) with fn = (c != 0): the non-zero bytes of a, in order.
RECURSIVE filterRange(_, _, _)
filterRange(a, lo, hi) ==
    IF lo > hi THEN <<>>
    ELSE IF lo = hi THEN (IF a[lo] # 0 THEN <<a[lo]>> ELSE <<>>)
    ELSE LET mid == (lo + hi) \div 2
         IN  filterRange(a, lo, mid) \o filterRange(a, mid + 1, hi)

filterNullChar(a) == filterRange(a, 1, Len(a))

\* WriteMultipleCoils packs coil i into bit (i & 7) of byte (i >> 3).
RECURSIVE bitsValue(_, _, _)
bitsValue(coils, lo, k) ==
    IF k > 8 \/ lo + k > Len(coils) THEN 0
    ELSE (IF coils[lo + k] THEN 1 ELSE 0) + 2 * bitsValue(coils, lo, k + 1)

packCoils(coils) ==
    [b \in 1..((Len(coils) + 7) \div 8) |-> bitsValue(coils, 8 * (b - 1), 1)]

\* Bit j (0 = least significant) of a byte.
bitOf(byte, j) == (byte \div (2 ^ j)) % 2 = 1

\* The argument record of a call; an operation reads only its own fields.
NoCall ==
    [op |-> "none", address |-> 0, quantity |-> 0, coil |-> FALSE, coils |-> <<>>,
     value |-> 0, values |-> <<>>, andMask |-> 0, orMask |-> 0,
     writeAddress |-> 0, writeQuantity |-> 0, bytes |-> <<>>, count |-> 0]

NoPDU == [FunctionCode |-> 0, Data |-> <<>>]

BitReads == {"ReadCoils", "ReadDiscreteInputs"}
RegisterReads == {"ReadHoldingRegisters", "ReadInputRegisters"}
EchoWrites ==
    {"WriteSingleCoil", "WriteSingleRegister", "WriteMultipleCoils",
     "WriteMultipleRegisters"}
ReadOps == BitReads \cup RegisterReads \cup {"ReadWriteMultipleRegisters", "ReadFIFOQueue"}
RawOps == ReadOps \cup EchoWrites \cup {"MaskWriteRegister"}

\* The checks with the combined read-write's write quantity tested against the
\* plain write limit.
ArgsInRange_WriteLimit(call) ==
    CASE call.op \in BitReads -> call.quantity >= 1 /\ call.quantity <= MaxCoilsRead
      [] call.op \in RegisterReads ->
            call.quantity >= 1 /\ call.quantity <= MaxRegistersRead
      [] call.op = "WriteMultipleCoils" ->
            Len(call.coils) >= 1 /\ Len(call.coils) <= MaxCoilsWrite
      [] call.op = "WriteMultipleRegisters" ->
            Len(call.values) >= 1 /\ Len(call.values) <= MaxRegistersWrite
      [] call.op = "ReadWriteMultipleRegisters" ->
            /\ call.quantity >= 1 /\ call.quantity <= MaxRegistersRead
            /\ call.writeQuantity >= 1 /\ call.writeQuantity <= MaxRegistersWrite
      [] OTHER -> TRUE

\* The quantity checks that open each operation: TRUE when the call goes on.
ArgsInRange(call) ==
    CASE call.op \in BitReads -> call.quantity >= 1 /\ call.quantity <= MaxCoilsRead
      [] call.op \in RegisterReads ->
            call.quantity >= 1 /\ call.quantity <= MaxRegistersRead
      [] call.op = "WriteMultipleCoils" ->
            Len(call.coils) >= 1 /\ Len(call.coils) <= MaxCoilsWrite
      [] call.op = "WriteMultipleRegisters" ->
            Len(call.values) >= 1 /\ Len(call.values) <= MaxRegistersWrite
      [] call.op = "ReadWriteMultipleRegisters" ->
            /\ call.quantity >= 1 /\ call.quantity <= MaxRegistersRead
            /\ call.writeQuantity >= 1 /\ call.writeQuantity <= MaxRegistersReadWrite
      [] OTHER -> TRUE

\* WriteSingleCoil's output value.
CoilValue(coil) == IF coil THEN 65280 ELSE 0

\* The request ProtocolDataUnit each operation builds.
Request(call) ==
    CASE call.op = "ReadDiscreteInputs" ->
            [FunctionCode |-> FuncCodeReadDiscreteInputs,
             Data |-> dataBlock(<<call.address, call.quantity>>)]
      [] call.op = "ReadCoils" ->
            [FunctionCode |-> FuncCodeReadCoils,
             Data |-> dataBlock(<<call.address, call.quantity>>)]
      [] call.op = "WriteSingleCoil" ->
            [FunctionCode |-> FuncCodeWriteSingleCoil,
             Data |-> dataBlock(<<call.address, CoilValue(call.coil)>>)]
      [] call.op = "WriteMultipleCoils" ->
            [FunctionCode |-> FuncCodeWriteMultipleCoils,
             Data |-> dataBlockSuffix(packCoils(call.coils),
                                      <<call.address, Len(call.coils)>>)]
      [] call.op = "ReadHoldingRegisters" ->
            [FunctionCode |-> FuncCodeReadHoldingRegisters,
             Data |-> dataBlock(<<call.address, call.quantity>>)]
      [] call.op = "ReadInputRegisters" ->
            [FunctionCode |-> FuncCodeReadInputRegisters,
             Data |-> dataBlock(<<call.address, call.quantity>>)]
      [] call.op = "WriteSingleRegister" ->
            [FunctionCode |-> FuncCodeWriteSingleRegister,
             Data |-> dataBlock(<<call.address, call.value>>)]
      [] call.op = "WriteMultipleRegisters" ->
            [FunctionCode |-> FuncCodeWriteMultipleRegisters,
             Data |-> dataBlockSuffix(dataBlock(call.values),
                                      <<call.address, Len(call.values)>>)]
      [] call.op = "MaskWriteRegister" ->
            [FunctionCode |-> FuncCodeMaskWriteRegister,
             Data |-> dataBlock(<<call.address, call.andMask, call.orMask>>)]
      [] call.op = "ReadWriteMultipleRegisters" ->
            [FunctionCode |-> FuncCodeReadWriteMultipleRegisters,
             Data |-> dataBlockSuffix(call.bytes,
                        <<call.address, call.quantity,
                          call.writeAddress, call.writeQuantity>>)]
      [] call.op = "ReadFIFOQueue" ->
            [FunctionCode |-> FuncCodeReadFIFOQueue,
             Data |-> dataBlock(<<call.address>>)]
      [] OTHER -> NoPDU

\* What an operation hands back: err is "nil" or the kind of error; e names a
\* transport error; bits / words are the returned slice, s the string a view
\* returns; exc is the ModbusError.
NoExc == [FunctionCode |-> 0, ExceptionCode |-> 0]
Result(err) ==
    [err |-> err, e |-> "", bits |-> <<>>, words |-> <<>>, s |-> <<>>, exc |-> NoExc]
NoResult == Result("none")

\* A ModbusError that drops the exception bit of the function code.
responseError_ClearBit(response) ==
    [FunctionCode |-> response.FunctionCode % 128,
     ExceptionCode |-> IF Len(response.Data) > 0 THEN response.Data[1] ELSE 0]

\* responseError: the ModbusError built from the decoded response.
responseError(response) ==
    [FunctionCode |-> response.FunctionCode,
     ExceptionCode |-> IF Len(response.Data) > 0 THEN response.Data[1] ELSE 0]

\* ReadCoils / ReadDiscreteInputs after transceive returned a response.  "panic"
\* is Go's run-time panic: an index or a slice bound out of range.
ParseBits(call, Data) ==
    LET byteCount == Data[1]
        length == Len(Data) - 1
    IN  IF Len(Data) = 0 THEN Result("panic")
        ELSE IF byteCount # length THEN Result("shape")
        ELSE IF call.quantity > byteCount * 8 THEN Result("panic")
        ELSE [Result("nil") EXCEPT
                !.bits = [i \in 1..call.quantity |->
                            bitOf(Data[2 + ((i - 1) \div 8)], (i - 1) % 8)]]

\* ReadHoldingRegisters / ReadInputRegisters / ReadWriteMultipleRegisters.
ParseRegisters(call, Data) ==
    LET count == Data[1]
        length == Len(Data) - 1
    IN  IF Len(Data) = 0 THEN Result("panic")
        ELSE IF count # length THEN Result("shape")
        ELSE [Result("nil") EXCEPT !.words = bytesToWordArray(Slice(Data, 1, Len(Data)))]

\* An echo check that compares the address only.
ParseEcho_AddressOnly(address, value, Data) ==
    IF Len(Data) # 4 THEN Result("shape")
    ELSE IF address # Uint16(Data) THEN Result("shape")
    ELSE Result("nil")

\* The four writes that echo the address and the value or quantity.
ParseEcho(address, value, Data) ==
    IF Len(Data) # 4 THEN Result("shape")
    ELSE IF address # Uint16(Data) THEN Result("shape")
    ELSE IF value # Uint16(Slice(Data, 2, 4)) THEN Result("shape")
    ELSE Result("nil")

ParseMask(call, Data) ==
    IF Len(Data) # 6 THEN Result("shape")
    ELSE IF call.address # Uint16(Data) THEN Result("shape")
    ELSE IF call.andMask # Uint16(Slice(Data, 2, 6)) THEN Result("shape")
    ELSE IF call.orMask # Uint16(Slice(Data, 4, 6)) THEN Result("shape")
    ELSE Result("nil")

\* A FIFO read that fills values before its count check.
ParseFIFO_Partial(call, Data) ==
    IF Len(Data) < 4 THEN Result("shape")
    ELSE IF Uint16(Data) # Len(Data) - 1 THEN Result("shape")
    ELSE IF Uint16(Slice(Data, 2, 4)) > MaxFIFOCount
        THEN [Result("shape") EXCEPT !.words = bytesToWordArray(Slice(Data, 4, Len(Data)))]
    ELSE [Result("nil") EXCEPT !.words = bytesToWordArray(Slice(Data, 4, Len(Data)))]

\* A FIFO read without the cap on the FIFO count.
ParseFIFO_NoCap(call, Data) ==
    IF Len(Data) < 4 THEN Result("shape")
    ELSE IF Uint16(Data) # Len(Data) - 1 THEN Result("shape")
    ELSE [Result("nil") EXCEPT !.words = bytesToWordArray(Slice(Data, 4, Len(Data)))]

ParseFIFO(call, Data) ==
    IF Len(Data) < 4 THEN Result("shape")
    ELSE IF Uint16(Data) # Len(Data) - 1 THEN Result("shape")
    ELSE IF Uint16(Slice(Data, 2, 4)) > MaxFIFOCount THEN Result("shape")
    ELSE [Result("nil") EXCEPT !.words = bytesToWordArray(Slice(Data, 4, Len(Data)))]

\* The part of each operation that follows a successful transceive.
Parse(call, Data) ==
    CASE call.op \in BitReads -> ParseBits(call, Data)
      [] call.op \in RegisterReads \cup {"ReadWriteMultipleRegisters"} ->
            ParseRegisters(call, Data)
      [] call.op = "WriteSingleCoil" ->
            ParseEcho(call.address, CoilValue(call.coil), Data)
      [] call.op = "WriteSingleRegister" -> ParseEcho(call.address, call.value, Data)
      [] call.op = "WriteMultipleCoils" ->
            ParseEcho(call.address, Len(call.coils), Data)
      [] call.op = "WriteMultipleRegisters" ->
            ParseEcho(call.address, Len(call.values), Data)
      [] call.op = "MaskWriteRegister" -> ParseMask(call, Data)
      [] call.op = "ReadFIFOQueue" -> ParseFIFO(call, Data)
      [] OTHER -> Result("nil")

\* transceive without the function code check.
Respond_NoException(call, aduRequest, aduResponse) ==
    LET v == Verify(aduRequest, aduResponse)
        response == Decode(aduResponse)
    IN  IF v # "nil" THEN [Result("verify") EXCEPT !.e = v]
        ELSE IF response.err # "nil" THEN [Result("decode") EXCEPT !.e = response.err]
        ELSE IF Len(response.Data) = 0 THEN Result("empty")
        ELSE Parse(call, response.Data)

\* transceive without the empty-payload check.
Respond_NoEmpty(call, aduRequest, aduResponse) ==
    LET v == Verify(aduRequest, aduResponse)
        response == Decode(aduResponse)
        request == Request(call)
    IN  IF v # "nil" THEN [Result("verify") EXCEPT !.e = v]
        ELSE IF response.err # "nil" THEN [Result("decode") EXCEPT !.e = response.err]
        ELSE IF response.FunctionCode # request.FunctionCode
            THEN [Result("modbus") EXCEPT !.exc = responseError(response)]
        ELSE Parse(call, response.Data)

\* A transceive that looks at the payload's length before the function code.
Respond_EmptyFirst(call, aduRequest, aduResponse) ==
    LET v == Verify(aduRequest, aduResponse)
        response == Decode(aduResponse)
        request == Request(call)
    IN  IF v # "nil" THEN [Result("verify") EXCEPT !.e = v]
        ELSE IF response.err # "nil" THEN [Result("decode") EXCEPT !.e = response.err]
        ELSE IF Len(response.Data) = 0 THEN Result("empty")
        ELSE IF response.FunctionCode # request.FunctionCode
            THEN [Result("modbus") EXCEPT !.exc = responseError(response)]
        ELSE Parse(call, response.Data)

\* ClientHandler.transceive from Verify on (the exchange gave aduResponse),
\* followed by the operation's own parsing when transceive returned no error.
Respond(call, aduRequest, aduResponse) ==
    LET v == Verify(aduRequest, aduResponse)
        response == Decode(aduResponse)
        request == Request(call)
    IN  IF v # "nil" THEN [Result("verify") EXCEPT !.e = v]
        ELSE IF response.err # "nil" THEN [Result("decode") EXCEPT !.e = response.err]
        ELSE IF response.FunctionCode # request.FunctionCode
            THEN [Result("modbus") EXCEPT !.exc = responseError(response)]
        ELSE IF Len(response.Data) = 0 THEN Result("empty")
        ELSE Parse(call, response.Data)

(***************************************************************************)
(* Bounds of the exploration                                               *)
(***************************************************************************)
\* Concurrent callers (goroutines) sharing one ClientHandler.
NumCallers == 2
\* Unit ids SetSlaveID is called with: 1 .. NumUnitIds, plus 26 (0x1A).
NumUnitIds == 1
\* Registers in the middle-sized register reads and writes.
MidQuantity == 3

Callers == 1..NumCallers
UnitIds == (1..NumUnitIds) \cup {26}
Fill(n, b) == [i \in 1..n |-> b]

(***************************************************************************)
(* The calls explored                                                      *)
(***************************************************************************)
Op2(op, address, quantity) ==
    [NoCall EXCEPT !.op = op, !.address = address, !.quantity = quantity]

\* One caller exercising every operation, at and around each limit.
SingleCalls ==
    {Op2("ReadCoils", 19, q) : q \in {0, 1, 19, MaxCoilsRead, MaxCoilsRead + 1}}
    \cup {Op2("ReadDiscreteInputs", 196, q) : q \in {0, 22, MaxCoilsRead, MaxCoilsRead + 1}}
    \cup {Op2("ReadHoldingRegisters", 107, q) :
            q \in {0, 1, MidQuantity, MaxRegistersRead, MaxRegistersRead + 1}}
    \cup {Op2("ReadInputRegisters", 8, q) :
            q \in {0, 1, MaxRegistersRead, MaxRegistersRead + 1}}
    \cup {[NoCall EXCEPT !.op = "WriteSingleCoil", !.address = 172, !.coil = b] :
            b \in BOOLEAN}
    \cup {[NoCall EXCEPT !.op = "WriteSingleRegister", !.address = 1, !.value = 3]}
    \cup {[NoCall EXCEPT !.op = "WriteMultipleCoils", !.address = 19,
                         !.coils = [i \in 1..n |-> i % 3 # 0]] :
            n \in {0, 5, MaxCoilsWrite, MaxCoilsWrite + 1}}
    \cup {[NoCall EXCEPT !.op = "WriteMultipleRegisters", !.address = 1,
                         !.values = [i \in 1..n |-> 256 + i]] :
            n \in {0, MidQuantity - 1, MaxRegistersWrite, MaxRegistersWrite + 1}}
    \cup {[NoCall EXCEPT !.op = "MaskWriteRegister", !.address = 4,
                         !.andMask = 242, !.orMask = 37]}
    \cup {[NoCall EXCEPT !.op = "ReadWriteMultipleRegisters", !.address = 3,
                         !.quantity = rw[1], !.writeAddress = 14,
                         !.writeQuantity = rw[2], !.bytes = Fill(2 * rw[2], 255)] :
            rw \in {<<0, 3>>, <<2 * MidQuantity, 3>>, <<MaxRegistersRead + 1, 3>>,
                    <<2 * MidQuantity, 0>>, <<MaxRegistersRead, MaxRegistersReadWrite>>,
                    <<2 * MidQuantity, MaxRegistersReadWrite + 1>>}}
    \cup {[NoCall EXCEPT !.op = "ReadWriteMultipleRegisters", !.address = 3,
                         !.quantity = 1, !.writeAddress = 14,
                         !.writeQuantity = 3, !.bytes = Fill(256, 255)]}
    \cup {[NoCall EXCEPT !.op = "ReadFIFOQueue", !.address = 1246]}
    \cup {[NoCall EXCEPT !.op = "Connect"], [NoCall EXCEPT !.op = "Close"]}

\* Several callers: one write, and the handler's Connect and Close.
MultiCalls ==
    {[NoCall EXCEPT !.op = "WriteSingleCoil", !.address = 1, !.coil = TRUE],
     [NoCall EXCEPT !.op = "Connect"], [NoCall EXCEPT !.op = "Close"]}

\* A race on one coil: the writer that runs against Toggle, and the handler's
\* Connect and Close.
RaceCalls ==
    {[NoCall EXCEPT !.op = "WriteSingleCoil", !.address = 1, !.coil = TRUE],
     [NoCall EXCEPT !.op = "Connect"], [NoCall EXCEPT !.op = "Close"]}

CallsOf(m) ==
    CASE m = "single" -> SingleCalls
      [] m = "multi" -> MultiCalls
      [] OTHER -> RaceCalls

\* The addressable-object views explored: Coil(address).Toggle(), and
\* HoldingRegisters(address, count) / InputRegisters(address, count) strings.
View(op, address, count, bytes) ==
    [op |-> op, address |-> address, count |-> count, bytes |-> bytes]
NoView == View("none", 0, 0, <<>>)

SingleViews ==
    {View("Toggle", 1, 0, <<>>),
     View("ReadString", 256, 2, <<>>), View("InputReadString", 256, 2, <<>>)}
    \cup {View("WriteString", 256, 2, Fill(n, 65)) : n \in {1, 4, 5}}
    \cup {View("WriteString", 256, 2 * MaxRegistersWrite, Fill(n, 66)) :
            n \in {2 * MaxRegistersWrite, 2 * MaxRegistersWrite + 1}}

RaceViews == {View("Toggle", 1, 0, <<>>)}

ViewsOf(m) ==
    CASE m = "single" -> SingleViews
      [] m = "race" -> RaceViews
      [] OTHER -> {}

(***************************************************************************)
(* The device: what it may send back for a request                         *)
(***************************************************************************)
PDU(fc, data) == [FunctionCode |-> fc, Data |-> data]

\* Payloads of the right shape for the call.
GoodData(call) ==
    LET req == Request(call).Data
        bc == (call.quantity + 7) \div 8
    IN  CASE call.op \in BitReads -> {<<bc>> \o Fill(bc, 205), <<bc>> \o Fill(bc, 2)}
          [] call.op \in RegisterReads \cup {"ReadWriteMultipleRegisters"} ->
                {<<2 * call.quantity>> \o
                    [i \in 1..(2 * call.quantity) |-> IF i % 2 = 1 THEN 2 ELSE 43]}
                \cup (IF call.quantity = 2
                      THEN {<<4, 0, 65, 66, 0>>, <<4, 72, 105, 0, 0>>} ELSE {})
          [] call.op \in EchoWrites -> {Slice(req, 0, 4)}
          [] call.op = "MaskWriteRegister" -> {req}
          [] call.op = "ReadFIFOQueue" ->
                {<<0, 6, 0, 2, 1, 184, 18, 132>>, <<0, 7, 0, 2, 1, 184, 18, 132>>,
                 <<0, 2 * MaxFIFOCount + 3, 0, MaxFIFOCount>> \o Fill(2 * MaxFIFOCount, 9),
                 <<0, 2 * MaxFIFOCount + 2, 0, MaxFIFOCount>> \o Fill(2 * MaxFIFOCount, 9),
                 <<0, 2, 0, 0>>}
          [] OTHER -> {}

\* Payloads the operation's own checks have to deal with.
OddData(call) ==
    LET req == Request(call).Data
        bc == (call.quantity + 7) \div 8
    IN  CASE call.op \in BitReads ->
                {<<bc + 1>> \o Fill(bc, 205), <<0>>, <<bc + 1>> \o Fill(bc + 1, 205),
                 <<bc - 1>> \o Fill(bc - 1, 205)}
          [] call.op \in RegisterReads \cup {"ReadWriteMultipleRegisters"} ->
                {<<2 * call.quantity + 1>> \o Fill(2 * call.quantity, 7),
                 <<2>> \o <<0, 7>>, <<3>> \o <<1, 2, 3>>, <<4>> \o <<1, 2, 3, 4>>}
          [] call.op \in EchoWrites ->
                {<<req[1], (req[2] + 1) % 256, req[3], req[4]>>,
                 <<req[1], req[2], req[3], (req[4] + 1) % 256>>,
                 <<req[1], req[2], (req[3] + 1) % 256, req[4]>>,
                 Slice(req, 0, 3), Slice(req, 0, 4) \o <<0>>}
          [] call.op = "MaskWriteRegister" ->
                {[req EXCEPT ![4] = (req[4] + 1) % 256],
                 [req EXCEPT ![6] = (req[6] + 1) % 256],
                 [req EXCEPT ![1] = (req[1] + 1) % 256], Slice(req, 0, 4)}
          [] call.op = "ReadFIFOQueue" ->
                {<<0, 3, 0, MaxFIFOCount + 1>>,
                 <<0, 2 * MaxFIFOCount + 5, 0, MaxFIFOCount + 1>>
                    \o Fill(2 * MaxFIFOCount + 2, 9),
                 <<0, 2>>, <<0, 4, 0, 1, 5>>}
          [] OTHER -> {}

\* Exception responses and other PDUs any request may be answered with.
CommonPDUs(fc) ==
    {PDU((fc + 128) % 256, <<1>>), PDU((fc + 128) % 256, <<4, 9>>),
     PDU((fc + 128) % 256, <<>>), PDU(fc + 64, <<0, 1, 0, 1>>), PDU(fc, <<>>)}

\* A well-formed frame spelled with lower-case hexadecimal digits.
LowerCase(adu) == [i \in 1..Len(adu) |-> IF adu[i] >= 65 /\ adu[i] <= 70 THEN adu[i] + 32 ELSE adu[i]]

\* Frames damaged on the way: each breaks one thing Verify or Decode looks at.
Damaged(g) ==
    LET n == Len(g)
    IN  {[g EXCEPT ![n - 2] = IF g[n - 2] = 48 THEN 49 ELSE 48],
         [g EXCEPT ![4] = IF g[4] = 48 THEN 49 ELSE 48],
         [g EXCEPT ![1] = 48],
         [g EXCEPT ![n] = 48],
         Slice(g, 0, n - 2),
         <<asciiStart, 48, 49, CR, LF>>,
         Slice(g, 0, 5) \o Slice(g, 6, n),
         [g EXCEPT ![2] = 71],
         [g EXCEPT ![5] = 71],
         [g EXCEPT ![n - 3] = 120],
         LowerCase(g),
         <<>>}

\* Everything the device may put on the wire in answer to aduRequest.
Frames(m, call, aduRequest) ==
    LET uid == readHex(Slice(aduRequest, 1, Len(aduRequest))).value
        other == (uid + 1) % 256
        fc == Request(call).FunctionCode
        good == {PDU(fc, d) : d \in GoodData(call)}
        g == Encode(uid, CHOOSE p \in good : TRUE)
        exc == PDU((fc + 128) % 256, <<1>>)
    IN  IF m = "single"
        THEN {Encode(uid, p) : p \in good \cup {PDU(fc, d) : d \in OddData(call)}
                                        \cup CommonPDUs(fc)}
             \cup {Encode(other, p) : p \in good \cup {exc}}
             \cup Damaged(g)
             \cup (IF call.op = "ReadFIFOQueue" THEN {Fill(asciiMaxSize + 2, 65)} ELSE {})
        ELSE IF m = "race" THEN {Encode(uid, p) : p \in good \cup {exc}}
        ELSE {Encode(uid, p) : p \in good}

(***************************************************************************)
(* The transports: serial port, TCP by address, TCP over a given conn      *)
(***************************************************************************)
Kinds == {"serial", "tcpaddr", "tcpconn"}

\* Transport failures are explored with one caller and with two; with more
\* callers every transport call succeeds.
Faults(m) == m # "multi"

\* A Connect that reconnects on every transport.
tConnect_Reconnects(m, kind, c) ==
    IF c THEN {[ret |-> "nil", conn |-> TRUE, new |-> FALSE]}
    ELSE {[ret |-> "nil", conn |-> TRUE, new |-> TRUE]}

\* A Connect that opens a connection whether or not one is held.
tConnect_Reopen(m, kind, c) ==
    IF kind = "tcpconn"
    THEN {[ret |-> IF c THEN "nil" ELSE "closed", conn |-> c, new |-> FALSE]}
    ELSE {[ret |-> "nil", conn |-> TRUE, new |-> TRUE]}

\* Connect: the outcomes [ret, conn, new] given whether a connection is held;
\* new tells that the call opened (dialed) a connection.
tConnect(m, kind, c) ==
    IF c THEN {[ret |-> "nil", conn |-> TRUE, new |-> FALSE]}
    ELSE IF kind = "tcpconn" THEN {[ret |-> "closed", conn |-> FALSE, new |-> FALSE]}
    ELSE {[ret |-> "nil", conn |-> TRUE, new |-> TRUE]}
         \cup IF Faults(m) THEN {[ret |-> "dial", conn |-> FALSE, new |-> FALSE]} ELSE {}

\* Close: drops the connection; closing may report an error.
tClose(m, kind, c) ==
    IF c /\ Faults(m)
    THEN {[ret |-> "nil", conn |-> FALSE], [ret |-> "close", conn |-> FALSE]}
    ELSE {[ret |-> "nil", conn |-> FALSE]}

\* SetReadTimeout: the outcomes [ret, conn, rt] given whether a connection is
\* held and the port's ReadTimeout rt.  The TCP transports set a read
\* deadline, which may fail.  The serial port does nothing when rt is the
\* timeout asked for or the port is not open; else it closes the port (an
\* error of Close is returned, the port is gone), sets ReadTimeout and opens
\* the port again; when that fails it restores ReadTimeout, and returns nil.
tSetReadTimeout(m, kind, c, rt, timeout) ==
    IF kind # "serial"
    THEN {[ret |-> "nil", conn |-> c, rt |-> rt]}
         \cup (IF Faults(m) THEN {[ret |-> "deadline", conn |-> c, rt |-> rt]} ELSE {})
    ELSE IF rt = timeout \/ ~c THEN {[ret |-> "nil", conn |-> c, rt |-> rt]}
    ELSE {[ret |-> "nil", conn |-> TRUE, rt |-> timeout]}
         \cup (IF Faults(m)
               THEN {[ret |-> "close", conn |-> FALSE, rt |-> rt],
                     [ret |-> "nil", conn |-> FALSE, rt |-> rt]}
               ELSE {})

\* Write: may fail.  The serial port calls s.port.Write on a port that is nil
\* when none is open: a nil pointer dereference ("panic") or, should the
\* port's Write test its receiver, an error.
tWrite(m, kind, c) ==
    IF kind = "serial" /\ ~c THEN {"panic", "write"}
    ELSE IF Faults(m) THEN {"nil", "write"} ELSE {"nil"}

\* Read errors; the serial port turns an empty read into a timeout error.
tReadErrors(m, kind) ==
    CASE m = "single" -> {"timeout", "eof"}
      [] m = "race" -> {"timeout"}
      [] OTHER -> {}

\* Byte counts a Read may return: all that is pending (cut to the buffer), all
\* but the last byte, or nothing when nothing is pending; the stream longer
\* than the buffer may also come one byte at a time.
tReadSizes(m, kind, timeout, pending, room) ==
    IF Len(pending) = 0
    THEN IF kind = "serial" /\ timeout > 0 THEN {} ELSE {0}
    ELSE {Min(Len(pending), room)}
         \cup (IF m = "single" /\ Len(pending) >= 2
               THEN {Min(Len(pending) - 1, room)} ELSE {})
         \cup (IF m = "single" /\ Len(pending) + asciiMaxSize - room = asciiMaxSize + 2
               THEN {1} ELSE {})

(***************************************************************************)
(* State                                                                   *)
(***************************************************************************)
VARIABLES
    mode,         \* which callers, calls and replies are explored: "single" (one
                  \* caller, every operation and reply), "multi" (NumCallers
                  \* callers, one write and the handler's Connect and Close,
                  \* no transport failure), "race" (two callers on one
                  \* coil: Toggle against a write, Connect and Close) or
                  \* "reopen" (one caller on a serial port whose ReadTimeout
                  \* is not the handler's Timeout)
    transport,    \* the kind of Transporter the handler was built with
    Timeout,      \* ClientHandler.Timeout
    ReadTimeout,  \* serialPort.Config.ReadTimeout
    SlaveID,      \* ClientHandler.SlaveID
    mu,           \* ClientHandler.mu: 0 when free, else the caller holding it
    conn,         \* the transport holds a live connection (conn / port # nil)
    wire,         \* bytes the device has sent and no Read has returned yet
    pc,           \* where each caller is
    view,         \* the view method each caller is in, if any
    call,         \* the operation each caller is in
    aduRequest,   \* the encoded request frame of each caller
    aduResponse,  \* data[:length] of each caller's exchange
    result,       \* what the operation returned
    tlog          \* the transport calls of each caller's current operation

vars == <<mode, transport, Timeout, ReadTimeout, SlaveID, mu, conn, wire, pc, view,
          call, aduRequest, aduResponse, result, tlog>>

config == <<mode, transport, Timeout, ReadTimeout>>
locals == <<call, aduRequest, aduResponse, result, tlog>>

\* The program points between mu.Lock() and the deferred mu.Unlock().
ExchangePCs == {"connect", "settimeout", "write", "read", "verify"}
HandlerPCs == {"hconnect", "hclose"}
LockedPCs == ExchangePCs \cup HandlerPCs

Entry(fn, ret, n) == [fn |-> fn, ret |-> ret, n |-> n]

Init ==
    /\ mode \in {"single", "multi", "race", "reopen"}
    /\ transport \in Kinds
    /\ Timeout \in {0, 5}
    /\ ReadTimeout \in {0, 5, 10}
    /\ (mode \in {"multi", "race"} => transport = "tcpaddr" /\ Timeout = 5)
    /\ (mode = "reopen" => transport = "serial" /\ Timeout = 5)
    /\ (mode = "reopen" <=> ReadTimeout # Timeout)
    /\ SlaveID = 0
    /\ mu = 0
    /\ conn = (transport = "tcpconn")
    /\ wire = <<>>
    /\ pc = [c \in Callers |-> "idle"]
    /\ view = [c \in Callers |-> NoView]
    /\ call = [c \in Callers |-> NoCall]
    /\ aduRequest = [c \in Callers |-> <<>>]
    /\ aduResponse = [c \in Callers |-> <<>>]
    /\ result = [c \in Callers |-> NoResult]
    /\ tlog = [c \in Callers |-> <<>>]

Active(c) ==
    CASE mode \in {"single", "reopen"} -> c = 1
      [] mode = "race" -> c \in {1, 2}
      [] OTHER -> TRUE

(***************************************************************************)
(* Steps of an operation                                                   *)
(***************************************************************************)
\* A Lock that does not wait for the holder.
CanLock_NoWait(c) == TRUE

\* sync.Mutex: Lock proceeds only when the mutex is free.
CanLock(c) == mu = 0

\* An operation up to c.mu.Lock(): the argument check, the request PDU and
\* Packager.Encode with the unit id read at this moment.
Begin(c, rc) ==
    /\ call' = [call EXCEPT ![c] = rc]
    /\ tlog' = [tlog EXCEPT ![c] = <<>>]
    /\ aduResponse' = [aduResponse EXCEPT ![c] = <<>>]
    /\ IF rc.op \in {"Connect", "Close"}
       THEN /\ pc' = [pc EXCEPT ![c] = "lock"]
            /\ aduRequest' = [aduRequest EXCEPT ![c] = <<>>]
            /\ result' = [result EXCEPT ![c] = NoResult]
       ELSE IF ~ArgsInRange(rc)
       THEN /\ pc' = [pc EXCEPT ![c] = "done"]
            /\ aduRequest' = [aduRequest EXCEPT ![c] = <<>>]
            /\ result' = [result EXCEPT ![c] = Result("arg")]
       ELSE /\ pc' = [pc EXCEPT ![c] = "lock"]
            /\ aduRequest' = [aduRequest EXCEPT ![c] = Encode(SlaveID, Request(rc))]
            /\ result' = [result EXCEPT ![c] = NoResult]

\* A caller invokes one of the handler's operations.
Call(c) ==
    /\ Active(c)
    /\ pc[c] = "idle"
    /\ \E rc \in CallsOf(mode) : Begin(c, rc)
    /\ UNCHANGED <<config, SlaveID, mu, conn, wire, view>>

\* The operation a view method starts with.
FirstCall(v) ==
    CASE v.op = "Toggle" -> Op2("ReadCoils", v.address, 1)
      [] v.op = "ReadString" -> Op2("ReadHoldingRegisters", v.address, v.count)
      [] v.op = "InputReadString" -> Op2("ReadInputRegisters", v.address, v.count)
      [] v.op = "WriteString" ->
            [NoCall EXCEPT !.op = "WriteMultipleRegisters", !.address = v.address,
                           !.values = bytesToWordArray(v.bytes)]
      [] OTHER -> NoCall

\* A Write that refuses a full view.
WriteFits_Strict(v) == Len(bytesToWordArray(v.bytes)) < v.count

\* rwRegisters.Write refuses more words than the view holds.
WriteFits(v) == Len(bytesToWordArray(v.bytes)) <= v.count

\* The view method returns r to its caller.
ViewReturns(c, r) ==
    /\ pc' = [pc EXCEPT ![c] = "vdone"]
    /\ result' = [result EXCEPT ![c] = r]
    /\ UNCHANGED <<call, aduRequest, aduResponse, tlog>>

\* A caller invokes a view method: Toggle, ReadString or WriteString.
CallView(c) ==
    /\ Active(c)
    /\ pc[c] = "idle"
    /\ \E v \in ViewsOf(mode) :
        /\ view' = [view EXCEPT ![c] = v]
        /\ IF v.op = "WriteString" /\ ~WriteFits(v)
           THEN ViewReturns(c, Result("length"))
           ELSE Begin(c, FirstCall(v))
    /\ UNCHANGED <<config, SlaveID, mu, conn, wire>>

\* A Toggle that writes back the value it read.
ViewContinue_SameValue(c) ==
    /\ pc[c] = "done"
    /\ view[c].op # "none"
    /\ IF view[c].op = "Toggle" /\ call[c].op = "ReadCoils" /\ result[c].err = "nil"
       THEN Begin(c, [NoCall EXCEPT !.op = "WriteSingleCoil",
                                    !.address = view[c].address,
                                    !.coil = result[c].bits[1]])
       ELSE IF view[c].op \in {"ReadString", "InputReadString"} /\ result[c].err = "nil"
       THEN ViewReturns(c, [Result("nil") EXCEPT
                              !.s = filterNullChar(wordsToByteArray(result[c].words))])
       ELSE ViewReturns(c, [result[c] EXCEPT !.bits = <<>>, !.words = <<>>])
    /\ UNCHANGED <<config, SlaveID, mu, conn, wire, view>>

\* The view method goes on after the operation it called returned.
ViewContinue(c) ==
    /\ pc[c] = "done"
    /\ view[c].op # "none"
    /\ IF view[c].op = "Toggle" /\ call[c].op = "ReadCoils" /\ result[c].err = "nil"
       THEN Begin(c, [NoCall EXCEPT !.op = "WriteSingleCoil",
                                    !.address = view[c].address,
                                    !.coil = ~result[c].bits[1]])
       ELSE IF view[c].op \in {"ReadString", "InputReadString"} /\ result[c].err = "nil"
       THEN ViewReturns(c, [Result("nil") EXCEPT
                              !.s = filterNullChar(wordsToByteArray(result[c].words))])
       ELSE ViewReturns(c, [result[c] EXCEPT !.bits = <<>>, !.words = <<>>])
    /\ UNCHANGED <<config, SlaveID, mu, conn, wire, view>>

\* SetSlaveID: a plain store, made without the lock.
SetSlaveID(c) ==
    /\ Active(c)
    /\ pc[c] = "idle"
    /\ \E id \in UnitIds : SlaveID' = id
    /\ UNCHANGED <<config, mu, conn, wire, pc, view, locals>>

\* c.mu.Lock()
Lock(c) ==
    /\ pc[c] = "lock"
    /\ CanLock(c)
    /\ mu' = c
    /\ pc' = [pc EXCEPT ![c] =
                CASE call[c].op = "Connect" -> "hconnect"
                  [] call[c].op = "Close" -> "hclose"
                  [] OTHER -> "connect"]
    /\ UNCHANGED <<config, SlaveID, conn, wire, view, locals>>

\* An exit path that leaves the mutex locked.
Unlock_Missing(c) == mu

\* An atomic Toggle: the mutex taken for the read is kept for the write.
Unlock_HeldByToggle(c) ==
    IF view[c].op = "Toggle" /\ call[c].op = "ReadCoils" THEN mu
    ELSE IF mu = c THEN 0 ELSE mu

\* The deferred c.mu.Unlock().
Unlock(c) == IF mu = c THEN 0 ELSE mu

\* The error of the transport call replaced by one of the handler's own.
Fail_Wrapped(c, fn, e) ==
    /\ pc' = [pc EXCEPT ![c] = "done"]
    /\ result' = [result EXCEPT ![c] = [Result("transport") EXCEPT !.e = "failed"]]
    /\ tlog' = [tlog EXCEPT ![c] = Append(@, Entry(fn, e, 0))]
    /\ aduResponse' = [aduResponse EXCEPT ![c] = <<>>]
    /\ mu' = Unlock(c)

\* The operation returns a transport call's error e.
Fail(c, fn, e) ==
    /\ pc' = [pc EXCEPT ![c] = "done"]
    /\ result' = [result EXCEPT ![c] = [Result("transport") EXCEPT !.e = e]]
    /\ tlog' = [tlog EXCEPT ![c] = Append(@, Entry(fn, e, 0))]
    /\ aduResponse' = [aduResponse EXCEPT ![c] = <<>>]
    /\ mu' = Unlock(c)

\* The pc after a transport call that returned no error.
AfterConnect == IF Timeout > 0 THEN "settimeout" ELSE "write"

\* ClientHandler.Connect and ClientHandler.Close, under the lock.
HandlerConnect(c) ==
    /\ pc[c] = "hconnect"
    /\ \E o \in tConnect(mode, transport, conn) :
        /\ conn' = o.conn
        /\ result' = [result EXCEPT ![c] =
                        IF o.ret = "nil" THEN Result("nil")
                        ELSE [Result("transport") EXCEPT !.e = o.ret]]
        /\ tlog' = [tlog EXCEPT ![c] = Append(@, Entry("Connect", o.ret, 0))]
    /\ pc' = [pc EXCEPT ![c] = "done"]
    /\ mu' = Unlock(c)
    /\ UNCHANGED <<config, SlaveID, wire, view, call, aduRequest, aduResponse>>

HandlerClose(c) ==
    /\ pc[c] = "hclose"
    /\ \E o \in tClose(mode, transport, conn) :
        /\ conn' = o.conn
        /\ result' = [result EXCEPT ![c] =
                        IF o.ret = "nil" THEN Result("nil")
                        ELSE [Result("transport") EXCEPT !.e = o.ret]]
        /\ tlog' = [tlog EXCEPT ![c] = Append(@, Entry("Close", o.ret, 0))]
    /\ pc' = [pc EXCEPT ![c] = "done"]
    /\ mu' = Unlock(c)
    /\ UNCHANGED <<config, SlaveID, wire, view, call, aduRequest, aduResponse>>

\* ASCIIPackager.transceive: transporter.Connect()
Connect(c) ==
    /\ pc[c] = "connect"
    /\ \E o \in tConnect(mode, transport, conn) :
        /\ conn' = o.conn
        /\ IF o.ret = "nil"
           THEN /\ pc' = [pc EXCEPT ![c] = AfterConnect]
                /\ tlog' = [tlog EXCEPT ![c] = Append(@, Entry("Connect", "nil", 0))]
                /\ UNCHANGED <<mu, result, aduResponse>>
           ELSE Fail(c, "Connect", o.ret)
    /\ UNCHANGED <<config, SlaveID, wire, view, call, aduRequest>>

\* transporter.SetReadTimeout(timeout), called when timeout > 0
SetReadTimeout(c) ==
    /\ pc[c] = "settimeout"
    /\ \E o \in tSetReadTimeout(mode, transport, conn, ReadTimeout, Timeout) :
        /\ conn' = o.conn
        /\ ReadTimeout' = o.rt
        /\ IF o.ret = "nil"
           THEN /\ pc' = [pc EXCEPT ![c] = "write"]
                /\ tlog' = [tlog EXCEPT ![c] =
                                Append(@, Entry("SetReadTimeout", "nil", 0))]
                /\ UNCHANGED <<mu, result, aduResponse>>
           ELSE Fail(c, "SetReadTimeout", o.ret)
    /\ UNCHANGED <<mode, transport, Timeout, SlaveID, wire, view, call, aduRequest>>

\* transporter.Write(aduRequest); the device's answer is then on its way.
Write(c) ==
    /\ pc[c] = "write"
    /\ \E r \in tWrite(mode, transport, conn) :
        CASE r = "nil" ->
                /\ pc' = [pc EXCEPT ![c] = "read"]
                /\ tlog' = [tlog EXCEPT ![c] =
                                Append(@, Entry("Write", "nil", Len(aduRequest[c])))]
                /\ \E f \in Frames(mode, call[c], aduRequest[c]) : wire' = f
                /\ UNCHANGED <<mu, result, aduResponse>>
          [] r = "panic" ->
                \* the panic unwinds through the deferred Unlock; the caller
                \* gets no result, the transport call is recorded as the cause
                /\ pc' = [pc EXCEPT ![c] = "panic"]
                /\ result' = [result EXCEPT ![c] =
                                [Result("transport") EXCEPT !.e = "panic"]]
                /\ tlog' = [tlog EXCEPT ![c] = Append(@, Entry("Write", "panic", 0))]
                /\ aduResponse' = [aduResponse EXCEPT ![c] = <<>>]
                /\ mu' = Unlock(c)
                /\ UNCHANGED wire
          [] OTHER ->
                /\ Fail(c, "Write", r)
                /\ UNCHANGED wire
    /\ UNCHANGED <<config, SlaveID, conn, view, call, aduRequest>>

\* A read loop that goes on when the buffer is just full.
LoopEnds_OverCap(data, n) ==
    \/ Len(data) > asciiMaxSize
    \/ n = 0
    \/ /\ Len(data) > asciiMinSize
       /\ Slice(data, Len(data) - Len(asciiEnd), Len(data)) = asciiEnd

\* A read loop without the test on the maximum size.
LoopEnds_NoCap(data, n) ==
    \/ n = 0
    \/ /\ Len(data) > asciiMinSize
       /\ Slice(data, Len(data) - Len(asciiEnd), Len(data)) = asciiEnd

\* The exit tests of the read loop, after length += n.
LoopEnds(data, n) ==
    \/ Len(data) >= asciiMaxSize
    \/ n = 0
    \/ /\ Len(data) > asciiMinSize
       /\ Slice(data, Len(data) - Len(asciiEnd), Len(data)) = asciiEnd

\* One transporter.Read(data[length:]) of the loop.
Read(c) ==
    /\ pc[c] = "read"
    /\ LET room == asciiMaxSize - Len(aduResponse[c])
       IN  \/ \E e \in tReadErrors(mode, transport) :
                /\ Fail(c, "Read", e)
                /\ wire' = <<>>
           \/ \E n \in tReadSizes(mode, transport, ReadTimeout, wire, room) :
                LET data == aduResponse[c] \o Slice(wire, 0, n)
                IN  /\ aduResponse' = [aduResponse EXCEPT ![c] = data]
                    /\ wire' = Slice(wire, n, Len(wire))
                    /\ tlog' = [tlog EXCEPT ![c] = Append(@, Entry("Read", "nil", n))]
                    /\ pc' = [pc EXCEPT ![c] =
                                IF LoopEnds(data, n) THEN "verify" ELSE "read"]
                    /\ UNCHANGED <<mu, result>>
    /\ UNCHANGED <<config, SlaveID, conn, view, call, aduRequest>>

\* A Verify against a frame built from the handler's current SlaveID.
Finish_CurrentSlaveID(c) ==
    /\ pc[c] = "verify"
    /\ LET r == Respond(call[c], Encode(SlaveID, Request(call[c])), aduResponse[c])
       IN  /\ result' = [result EXCEPT ![c] = r]
           /\ pc' = [pc EXCEPT ![c] = IF r.err = "panic" THEN "panic" ELSE "done"]
    /\ mu' = Unlock(c)
    /\ wire' = <<>>
    /\ UNCHANGED <<config, SlaveID, conn, view, call, aduRequest, aduResponse, tlog>>

\* The rest of ClientHandler.transceive (Verify, Decode, the function code and
\* empty-payload checks), the deferred Unlock, and the operation's parsing.
Finish(c) ==
    /\ pc[c] = "verify"
    /\ LET r == Respond(call[c], aduRequest[c], aduResponse[c])
       IN  /\ result' = [result EXCEPT ![c] = r]
           /\ pc' = [pc EXCEPT ![c] = IF r.err = "panic" THEN "panic" ELSE "done"]
    /\ mu' = Unlock(c)
    /\ wire' = <<>>
    /\ UNCHANGED <<config, SlaveID, conn, view, call, aduRequest, aduResponse, tlog>>

\* The caller takes the result and is free to call again.
Return(c) ==
    /\ \/ pc[c] = "done" /\ view[c].op = "none"
       \/ pc[c] = "vdone"
    /\ pc' = [pc EXCEPT ![c] = "idle"]
    /\ view' = [view EXCEPT ![c] = NoView]
    /\ call' = [call EXCEPT ![c] = NoCall]
    /\ aduRequest' = [aduRequest EXCEPT ![c] = <<>>]
    /\ aduResponse' = [aduResponse EXCEPT ![c] = <<>>]
    /\ result' = [result EXCEPT ![c] = NoResult]
    /\ tlog' = [tlog EXCEPT ![c] = <<>>]
    /\ UNCHANGED <<config, SlaveID, mu, conn, wire>>

Next ==
    \E c \in Callers :
        \/ Call(c)
        \/ CallView(c)
        \/ ViewContinue(c)
        \/ SetSlaveID(c)
        \/ Lock(c)
        \/ HandlerConnect(c)
        \/ HandlerClose(c)
        \/ Connect(c)
        \/ SetReadTimeout(c)
        \/ Write(c)
        \/ Read(c)
        \/ Finish(c)
        \/ Return(c)

Spec == Init /\ [][Next]_vars

(***************************************************************************)
(* Fairness.  Every transport call returns and the handling of a response  *)
(* terminates, so a caller between Lock and Unlock keeps going; sync.Mutex *)
(* hands the lock to a waiter that has waited long enough (starvation      *)
(* mode), so a caller blocked in Lock while the mutex is released again    *)
(* and again does get it.                                                  *)
(***************************************************************************)
\* The steps of caller c between Lock and Unlock.
Locked(c) ==
    \/ HandlerConnect(c) \/ HandlerClose(c) \/ Connect(c)
    \/ SetReadTimeout(c) \/ Write(c) \/ Read(c) \/ Finish(c)

\* Each of those steps is enabled wherever its pc is (a transport call always
\* has an outcome), so ENABLED <<Locked(c)>>_vars is pc[c] \in LockedPCs.
LockedEnabled == \A c \in Callers : (ENABLED <<Locked(c)>>_vars) <=> (pc[c] \in LockedPCs)

\* WF_vars(Locked(c)), with ENABLED written as the state predicate it equals.
Proceeds(c) == []<>(pc[c] \notin LockedPCs) \/ []<><<Locked(c)>>_vars

\* Two concurrent callers (a Toggle against writes, Connect and Close), and one
\* caller meeting every outcome of an exchange over TCP.
FairInit ==
    /\ Init
    /\ mode = "race" \/ (mode = "single" /\ transport = "tcpaddr" /\ Timeout > 0)

FairSpec ==
    /\ FairInit /\ [][Next]_vars
    /\ \A c \in Callers : Proceeds(c) /\ SF_vars(Lock(c))

(***************************************************************************)
(* The packager alone: Encode, Verify and Decode on frames of every shape  *)
(***************************************************************************)
\* The longest data of a ProtocolDataUnit the packager is exercised with.
MaxDataBytes == 252

\* Unit ids of the answering device next to the handler's SlaveID.
CodecUnitIds(id) == {id, (id + 255) % 256}

\* Requests the handler encodes.
CodecRequests == {PDU(FuncCodeReadHoldingRegisters, <<0, 107, 0, 3>>), PDU(255, <<>>)}

\* Data of 0 to MaxDataBytes bytes.
CodecData ==
    {<<>>, <<0>>, <<128>>, <<255, 1>>, <<10, 171, 205, 239>>,
     [i \in 1..MaxDataBytes |-> (i * 7) % 256]}

\* Any function code, any data.
CodecPDUs == {PDU(fc, d) : fc \in {0, 3, 131, 255}, d \in CodecData}

\* The bytes a frame spells between ':' and CR LF, and the frame of such bytes.
CodecBytes(adu) == hexDecode(Slice(adu, 1, Len(adu) - 2)).bytes
CodecFrame(bytes) == <<asciiStart>> \o writeHex(bytes) \o asciiEnd

\* What a frame may become on the way: one byte of unit id, function code,
\* data or checksum changed to another value; unit id and function code
\* changed so that their sum stays; one character no hexadecimal digit; the
\* same bytes spelled in lower case.
Corrupted(adu) ==
    LET b == CodecBytes(adu)
        n == Len(b)
        K == {1, 2, n} \cup (IF n > 3 THEN {3, n - 1} ELSE {})
    IN  {CodecFrame([b EXCEPT ![k] = (@ + d) % 256]) : k \in K, d \in {1, 16, 255}}
        \cup {CodecFrame([b EXCEPT ![1] = (@ + 1) % 256, ![2] = (@ + 255) % 256])}
        \cup {[adu EXCEPT ![i] = 71] :
                i \in {2, 4, Len(adu) - 3} \cup (IF n > 3 THEN {6} ELSE {})}
        \cup {LowerCase(adu)}

\* Verify, then Decode when Verify returned nil.
Unpack(request, adu) ==
    LET v == Verify(request, adu)
        response == Decode(adu)
    IN  IF v # "nil" THEN [err |-> "verify", e |-> v, FunctionCode |-> 0, Data |-> <<>>]
        ELSE [err |-> IF response.err = "nil" THEN "nil" ELSE "decode",
              e |-> response.err,
              FunctionCode |-> response.FunctionCode, Data |-> response.Data]

CodecInit ==
    /\ mode = "codec"
    /\ transport = "tcpaddr"
    /\ Timeout = 5
    /\ ReadTimeout = 5
    /\ SlaveID \in {0, 255}
    /\ mu = 0
    /\ conn = FALSE
    /\ wire = <<>>
    /\ pc = [c \in Callers |-> "idle"]
    /\ view = [c \in Callers |-> NoView]
    /\ call = [c \in Callers |-> NoCall]
    /\ aduRequest = [c \in Callers |-> <<>>]
    /\ aduResponse = [c \in Callers |-> <<>>]
    /\ result = [c \in Callers |-> NoResult]
    /\ tlog = [c \in Callers |-> <<>>]

\* The handler encodes a request with its SlaveID.
CodecEncode(c) ==
    /\ c = 1
    /\ pc[c] = "idle"
    /\ \E request \in CodecRequests :
        aduRequest' = [aduRequest EXCEPT ![c] = Encode(SlaveID, request)]
    /\ pc' = [pc EXCEPT ![c] = "encoded"]
    /\ UNCHANGED <<config, SlaveID, mu, conn, wire, view, call, aduResponse, result, tlog>>

\* The device encodes its answer: unit id call.address, function code
\* call.value, data call.bytes.
CodecAnswer(c) ==
    /\ pc[c] = "encoded"
    /\ \E id \in CodecUnitIds(SlaveID), pdu \in CodecPDUs :
        /\ call' = [call EXCEPT ![c] =
                        [NoCall EXCEPT !.op = "Encode", !.address = id,
                                       !.value = pdu.FunctionCode, !.bytes = pdu.Data]]
        /\ wire' = Encode(id, pdu)
    /\ pc' = [pc EXCEPT ![c] = "answered"]
    /\ UNCHANGED <<config, SlaveID, mu, conn, view, aduRequest, aduResponse, result, tlog>>

\* The answer is changed on the way.
CodecCorrupt(c) ==
    /\ pc[c] = "answered"
    /\ wire' \in Corrupted(wire)
    /\ pc' = [pc EXCEPT ![c] = "corrupted"]
    /\ UNCHANGED <<config, SlaveID, mu, conn, view, locals>>

\* The handler verifies and decodes what arrived.
CodecUnpack(c) ==
    /\ pc[c] \in {"answered", "corrupted"}
    /\ aduResponse' = [aduResponse EXCEPT ![c] = wire]
    /\ result' = [result EXCEPT ![c] = Unpack(aduRequest[c], wire)]
    /\ wire' = <<>>
    /\ pc' = [pc EXCEPT ![c] = "done"]
    /\ UNCHANGED <<config, SlaveID, mu, conn, view, call, aduRequest, tlog>>

CodecNext ==
    \E c \in Callers :
        \/ SetSlaveID(c)
        \/ CodecEncode(c)
        \/ CodecAnswer(c)
        \/ CodecCorrupt(c)
        \/ CodecUnpack(c)
        \/ Return(c)

CodecSpec == CodecInit /\ [][CodecNext]_vars

(***************************************************************************)
(* Claims                                                                  *)
(***************************************************************************)
\* A raw operation has returned to its caller (or panicked on the way back).
Returned(c) == pc[c] \in {"done", "panic"} /\ call[c].op \in RawOps

\* ... after an exchange that gave a response (no argument or transport error).
Exchanged(c) == Returned(c) /\ result[c].err \notin {"arg", "transport", "none"}

NoValues(r) == r.bits = <<>> /\ r.words = <<>>

\* C1: at most one caller at a time is between mu.Lock() and mu.Unlock(): two
\* requests' exchanges (Connect, SetReadTimeout, Write, Read, Verify, Decode)
\* never overlap, the handler's Connect and Close never run during an
\* exchange, and whoever is in that section holds the mutex.
C1_OneRequestInFlight ==
    /\ \A c \in Callers : pc[c] \in LockedPCs => mu = c
    /\ \A c, d \in Callers :
        (c # d /\ pc[c] \in LockedPCs) => pc[d] \notin LockedPCs

\* A Close is blocked in Lock while another caller's request is being read.
C1_Witness ==
    \E c, d \in Callers :
        /\ pc[c] = "read" /\ aduResponse[c] = <<>> /\ wire # <<>>
        /\ pc[d] = "lock" /\ call[d].op = "Close"

\* C2 (safety part): a caller that is not between Lock and Unlock, whatever
\* its operation returned, does not hold the mutex, and a caller about to
\* Lock does not hold it already.
C2_LockFree ==
    \A c \in Callers : pc[c] \notin LockedPCs => mu # c

\* C2: the mutex is released on every path, and with fair scheduling every
\* caller blocked in Lock gets the mutex.
C2_LockReleased ==
    /\ []C2_LockFree
    /\ \A c \in Callers : (pc[c] = "lock") ~> (mu = c)

\* An operation returned a Read timeout and another caller now holds the mutex.
C2_Witness ==
    \E c, d \in Callers :
        /\ c # d /\ pc[c] = "done" /\ result[c].err = "transport"
        /\ result[c].e = "timeout" /\ mu = d /\ pc[d] = "read"

\* C3: a caller that has encoded its request frame and is still in the
\* operation holds the mutex (the unit id is read and the frame encoded
\* under the lock).
C3_EncodeUnderLock ==
    \A c \in Callers :
        (aduRequest[c] # <<>> /\ pc[c] \notin {"done", "vdone", "panic", "idle"})
            => mu = c

\* The protocol limits, spelled out per operation.
C4_InLimits(k) ==
    CASE k.op \in {"ReadCoils", "ReadDiscreteInputs"} -> k.quantity \in 1..2000
      [] k.op \in {"ReadHoldingRegisters", "ReadInputRegisters"} -> k.quantity \in 1..125
      [] k.op = "WriteMultipleCoils" -> Len(k.coils) \in 1..1968
      [] k.op = "WriteMultipleRegisters" -> Len(k.values) \in 1..123
      [] k.op = "ReadWriteMultipleRegisters" ->
            k.quantity \in 1..125 /\ k.writeQuantity \in 1..121
      [] OTHER -> TRUE

\* C4: a call with a quantity outside its limit returns an error and no
\* values at once, with no transport call, no encoded frame and no Lock; a
\* call inside the limits is never refused: its request is encoded (the frame
\* the caller takes to the lock decodes to the request), and unless a
\* transport call failed that frame is written to the transport.
C4_QuantityLimits ==
    \A c \in Callers :
        (call[c].op \in RawOps /\ pc[c] # "idle") =>
            IF ~C4_InLimits(call[c])
            THEN /\ pc[c] \in {"done", "vdone"}
                 /\ result[c].err = "arg"
                 /\ NoValues(result[c])
                 /\ tlog[c] = <<>>
                 /\ aduRequest[c] = <<>>
                 /\ mu # c
            ELSE /\ result[c].err # "arg"
                 /\ aduRequest[c] # <<>>
                 /\ (pc[c] = "lock" =>
                        LET sent == Decode(aduRequest[c])
                        IN  /\ sent.err = "nil"
                            /\ sent.FunctionCode = Request(call[c]).FunctionCode
                            /\ sent.Data = Request(call[c]).Data)
                 /\ (result[c].err \notin {"none", "transport"} =>
                        \E i \in 1..Len(tlog[c]) :
                            tlog[c][i] = Entry("Write", "nil", Len(aduRequest[c])))

\* ReadWriteMultipleRegisters with 122 registers to write was refused.
C4_Witness ==
    \E c \in Callers :
        /\ call[c].op = "ReadWriteMultipleRegisters"
        /\ call[c].quantity \in 1..125 /\ call[c].writeQuantity = 122
        /\ pc[c] = "done" /\ result[c].err = "arg"

\* The response of a finished exchange passed Verify and Decode.
Accepted(c) ==
    /\ Exchanged(c)
    /\ Verify(aduRequest[c], aduResponse[c]) = "nil"
    /\ Decode(aduResponse[c]).err = "nil"

\* C5: when the response passed Verify and Decode and its function code is not
\* the request's, the operation returns a ModbusError whose exception code is
\* the first payload byte (0 when there is none), no values, and none of the
\* operation's own checks ran.
C5_ExceptionResponse ==
    \A c \in Callers :
        (Accepted(c) /\ Decode(aduResponse[c]).FunctionCode
                            # Request(call[c]).FunctionCode) =>
            /\ pc[c] = "done"
            /\ result[c].err = "modbus"
            /\ result[c].exc.ExceptionCode =
                (IF Len(Decode(aduResponse[c]).Data) > 0
                 THEN Decode(aduResponse[c]).Data[1] ELSE 0)
            /\ NoValues(result[c])

\* ReadFIFOQueue answered with function code 0x98 and payload 01.
C5_Witness ==
    \E c \in Callers :
        /\ pc[c] = "done" /\ call[c].op = "ReadFIFOQueue"
        /\ result[c].err = "modbus" /\ result[c].exc.ExceptionCode = 1
        /\ Decode(aduResponse[c]).Data = <<1>>

\* C6 as stated: the ModbusError carries the function code of the request.
C6_OriginalFunctionCode ==
    \A c \in Callers :
        (Returned(c) /\ result[c].err = "modbus") =>
            result[c].exc.FunctionCode = Request(call[c]).FunctionCode

\* C6 as amended: the ModbusError carries the function code the response
\* reported back (never the request's) and the device's exception code.
C6_ReportedFunctionCode ==
    \A c \in Callers :
        (Returned(c) /\ result[c].err = "modbus") =>
            /\ result[c].exc.FunctionCode = Decode(aduResponse[c]).FunctionCode
            /\ result[c].exc.FunctionCode # Request(call[c]).FunctionCode
            /\ result[c].exc.ExceptionCode =
                (IF Len(Decode(aduResponse[c]).Data) > 0
                 THEN Decode(aduResponse[c]).Data[1] ELSE 0)

\* ReadFIFOQueue (0x18) failed with function code 152 (0x98), exception 1.
C6_Witness ==
    \E c \in Callers :
        /\ pc[c] = "done" /\ call[c].op = "ReadFIFOQueue"
        /\ result[c].err = "modbus"
        /\ result[c].exc = [FunctionCode |-> 152, ExceptionCode |-> 1]

\* C7: a response that passed Verify and Decode, has the request's function
\* code and no payload makes the operation fail with the empty-response error:
\* no ModbusError, no values, and the operation's parsing (which indexes the
\* payload) is not reached.
C7_EmptyPayload ==
    \A c \in Callers :
        (Accepted(c)
         /\ Decode(aduResponse[c]).FunctionCode = Request(call[c]).FunctionCode
         /\ Len(Decode(aduResponse[c]).Data) = 0) =>
            /\ pc[c] = "done"
            /\ result[c].err = "empty"
            /\ result[c].exc = NoExc
            /\ NoValues(result[c])

\* ReadHoldingRegisters got a well-formed frame with no payload.
C7_Witness ==
    \E c \in Callers :
        /\ pc[c] = "done" /\ call[c].op = "ReadHoldingRegisters"
        /\ Verify(aduRequest[c], aduResponse[c]) = "nil"
        /\ Decode(aduResponse[c]) = [err |-> "nil", FunctionCode |-> 3, Data |-> <<>>]
        /\ result[c].err = "empty"

\* The unit id and function code fields of a frame, as sent.
UnitOf(adu) == readHex(Slice(adu, 1, 3))
FuncOf(adu) == readHex(Slice(adu, 3, 5))

\* C8: success only when the response's unit id is the request's and its
\* function code the request's; a ModbusError only when the unit id matches
\* and the function code differs; a response from any other unit id is
\* refused by Verify (a framing error).
C8_UnitAndFunction ==
    \A c \in Callers :
        Exchanged(c) =>
            /\ result[c].err \in {"nil", "modbus"} =>
                /\ Len(aduResponse[c]) >= 9
                /\ UnitOf(aduResponse[c]).err = "nil"
                /\ UnitOf(aduResponse[c]).value = UnitOf(aduRequest[c]).value
                /\ FuncOf(aduResponse[c]).err = "nil"
                /\ (result[c].err = "nil") =
                    (FuncOf(aduResponse[c]).value = Request(call[c]).FunctionCode)
            /\ (/\ Len(aduResponse[c]) >= 3
                /\ UnitOf(aduResponse[c]).err = "nil"
                /\ UnitOf(aduResponse[c]).value # UnitOf(aduRequest[c]).value) =>
                    /\ pc[c] = "done"
                    /\ result[c].err = "verify"
                    /\ NoValues(result[c])

\* A well-formed response from another unit id was refused.
C8_Witness ==
    \E c \in Callers :
        /\ pc[c] = "done" /\ result[c].err = "verify" /\ result[c].e = "slaveid"
        /\ Decode(aduResponse[c]).err = "nil"
        /\ Decode(aduResponse[c]).FunctionCode = Request(call[c]).FunctionCode

\* The transport calls named fn in a log.
CallsTo(log, fn) == {i \in 1..Len(log) : log[i].fn = fn}

\* C9: a transport call that returned an error is the last transport call of
\* the operation, the operation returns exactly that error, and an operation
\* never writes its request twice.  (A call that panicked did not return.)
C9_TransportError ==
    \A c \in Callers :
        /\ \A i \in 1..Len(tlog[c]) :
            tlog[c][i].ret \notin {"nil", "panic"} =>
                /\ i = Len(tlog[c])
                /\ pc[c] \in {"done", "vdone"}
                /\ result[c].err = "transport"
                /\ result[c].e = tlog[c][i].ret
                /\ NoValues(result[c])
        /\ result[c].err = "transport" =>
            /\ Len(tlog[c]) > 0
            /\ tlog[c][Len(tlog[c])].ret = result[c].e
        /\ Cardinality(CallsTo(tlog[c], "Write")) <= 1
        /\ Cardinality(CallsTo(tlog[c], "Connect")) <= 1

\* A Read timed out after an earlier Read of the same exchange gave bytes.
C9_Witness ==
    \E c \in Callers :
        /\ pc[c] = "done" /\ result[c].err = "transport" /\ result[c].e = "timeout"
        /\ Len(tlog[c]) >= 4
        /\ tlog[c][Len(tlog[c]) - 1].fn = "Read" /\ tlog[c][Len(tlog[c]) - 1].n > 0
        /\ tlog[c][Len(tlog[c])] = Entry("Read", "timeout", 0)

\* C10: a read operation that returns an error returns no values.
C10_NoPartialResult ==
    \A c \in Callers :
        (pc[c] = "done" /\ call[c].op \in ReadOps /\ result[c].err # "nil") =>
            NoValues(result[c])

\* ReadFIFOQueue refused a response whose registers all parse (count 32).
C10_Witness ==
    \E c \in Callers :
        /\ pc[c] = "done" /\ call[c].op = "ReadFIFOQueue" /\ result[c].err = "shape"
        /\ Accepted(c)
        /\ Len(Decode(aduResponse[c]).Data) = 4 + 2 * 32
        /\ Uint16(Slice(Decode(aduResponse[c]).Data, 2, 4)) = 32
\* C11: a bit read of q in 1..2000 whose response has the request's function
\* code and a byte count equal to the number of status bytes that follow
\* returns exactly q booleans, value i being bit (i mod 8), least significant
\* first, of status byte (i div 8).
C11_BitUnpacking ==
    \A c \in Callers :
        (Accepted(c) /\ call[c].op \in BitReads
         /\ Decode(aduResponse[c]).FunctionCode = Request(call[c]).FunctionCode
         /\ Len(Decode(aduResponse[c]).Data) >= 1
         /\ Decode(aduResponse[c]).Data[1] = Len(Decode(aduResponse[c]).Data) - 1) =>
            LET status == Slice(Decode(aduResponse[c]).Data, 1,
                                Len(Decode(aduResponse[c]).Data))
                q == call[c].quantity
            IN  /\ pc[c] = "done"
                /\ result[c].err = "nil"
                /\ Len(result[c].bits) = q
                /\ \A i \in 0..(q - 1) :
                    result[c].bits[i + 1] =
                        ((status[(i \div 8) + 1] \div (2 ^ (i % 8))) % 2 = 1)

\* The same with the status bytes covering the quantity: pad bits are dropped.
C11_BitsCovered ==
    \A c \in Callers :
        (Accepted(c) /\ call[c].op \in BitReads
         /\ Decode(aduResponse[c]).FunctionCode = Request(call[c]).FunctionCode
         /\ Len(Decode(aduResponse[c]).Data) >= 1
         /\ Decode(aduResponse[c]).Data[1] = Len(Decode(aduResponse[c]).Data) - 1
         /\ 8 * Decode(aduResponse[c]).Data[1] >= call[c].quantity) =>
            LET status == Slice(Decode(aduResponse[c]).Data, 1,
                                Len(Decode(aduResponse[c]).Data))
                q == call[c].quantity
            IN  /\ pc[c] = "done"
                /\ result[c].err = "nil"
                /\ Len(result[c].bits) = q
                /\ \A i \in 0..(q - 1) :
                    result[c].bits[i + 1] =
                        ((status[(i \div 8) + 1] \div (2 ^ (i % 8))) % 2 = 1)

\* ReadCoils(19, 19) got byte count 2 and two status bytes, and panicked.
C11_Panics ==
    \E c \in Callers :
        /\ pc[c] = "panic" /\ call[c].op = "ReadCoils" /\ call[c].quantity = 19
        /\ Accepted(c)
        /\ Decode(aduResponse[c]).Data = <<2, 205, 205>>

\* C12: a register read of q registers that returns without error returns
\* exactly q values, value i being the big-endian decoding of bytes 2i and
\* 2i+1 of the payload after the byte count.
C12_RegisterDecoding ==
    \A c \in Callers :
        (pc[c] = "done" /\ result[c].err = "nil"
         /\ call[c].op \in RegisterReads \cup {"ReadWriteMultipleRegisters"}) =>
            LET Data == Decode(aduResponse[c]).Data
            IN  /\ Len(result[c].words) = call[c].quantity
                /\ Len(Data) = 1 + 2 * call[c].quantity
                /\ \A i \in 1..call[c].quantity :
                    result[c].words[i] = 256 * Data[2 * i] + Data[2 * i + 1]

\* ReadHoldingRegisters(107, 125) returned one value and no error.
C12_ShortAnswer ==
    \E c \in Callers :
        /\ pc[c] = "done" /\ call[c].op = "ReadHoldingRegisters"
        /\ call[c].quantity = 125
        /\ result[c].err = "nil" /\ result[c].words = <<7>>
        /\ Decode(aduResponse[c]).Data = <<2, 0, 7>>

\* The payload a write operation expects back, byte by byte.
C13_Echo(k) ==
    LET hi(v) == v \div 256
        lo(v) == v % 256
    IN  CASE k.op = "WriteSingleCoil" ->
                <<hi(k.address), lo(k.address), IF k.coil THEN 255 ELSE 0, 0>>
          [] k.op = "WriteSingleRegister" ->
                <<hi(k.address), lo(k.address), hi(k.value), lo(k.value)>>
          [] k.op = "WriteMultipleCoils" ->
                <<hi(k.address), lo(k.address), hi(Len(k.coils)), lo(Len(k.coils))>>
          [] k.op = "WriteMultipleRegisters" ->
                <<hi(k.address), lo(k.address), hi(Len(k.values)), lo(Len(k.values))>>
          [] k.op = "MaskWriteRegister" ->
                <<hi(k.address), lo(k.address), hi(k.andMask), lo(k.andMask),
                  hi(k.orMask), lo(k.orMask)>>
          [] OTHER -> <<>>

\* C13: WriteSingleCoil sends 0xFF00 for true and 0x0000 for false; a write
\* operation whose response has the request's function code succeeds if and
\* only if the payload is exactly the echo (4 bytes: address and value or
\* quantity; 6 for MaskWriteRegister: address and both masks); any other
\* payload is a framing error, no ModbusError, and the request was written once.
C13_WriteEcho ==
    \A c \in Callers :
        /\ (call[c].op = "WriteSingleCoil" /\ pc[c] = "lock") =>
                Decode(aduRequest[c]).Data = C13_Echo(call[c])
        /\ (pc[c] = "done" /\ call[c].op \in EchoWrites \cup {"MaskWriteRegister"}
            /\ Accepted(c)
            /\ Decode(aduResponse[c]).FunctionCode = Request(call[c]).FunctionCode) =>
                /\ (result[c].err = "nil") =
                        (Decode(aduResponse[c]).Data = C13_Echo(call[c]))
                /\ result[c].err \in {"nil", "shape", "empty"}
                /\ result[c].exc = NoExc
                /\ Cardinality(CallsTo(tlog[c], "Write")) = 1

\* WriteSingleCoil(0xAC, true) sent FF00, was answered FF01 and refused it.
C13_Witness ==
    \E c \in Callers :
        /\ pc[c] = "done" /\ call[c].op = "WriteSingleCoil"
        /\ call[c].address = 172 /\ call[c].coil
        /\ result[c].err = "shape"
        /\ Decode(aduRequest[c]).Data = <<0, 172, 255, 0>>
        /\ Decode(aduResponse[c]).Data = <<0, 172, 255, 1>>

\* C14: a ReadFIFOQueue whose response has the request's function code and a
\* FIFO count field (payload bytes 2 and 3, big-endian) above 31 returns a
\* framing error, not a ModbusError, and no values, whatever the rest of the
\* payload is.
C14_FIFOCountCap ==
    \A c \in Callers :
        (pc[c] \in {"done", "panic"} /\ call[c].op = "ReadFIFOQueue" /\ Accepted(c)
         /\ Decode(aduResponse[c]).FunctionCode = FuncCodeReadFIFOQueue
         /\ Len(Decode(aduResponse[c]).Data) >= 4
         /\ 256 * Decode(aduResponse[c]).Data[3] + Decode(aduResponse[c]).Data[4]
                > 31) =>
            /\ pc[c] = "done"
            /\ result[c].err = "shape"
            /\ result[c].exc = NoExc
            /\ NoValues(result[c])

\* The response 00 03 00 20: a consistent byte count, a FIFO count of 32 and
\* nothing else; the read returned the framing error.
C14_Witness ==
    \E c \in Callers :
        /\ pc[c] = "done" /\ call[c].op = "ReadFIFOQueue" /\ result[c].err = "shape"
        /\ Accepted(c)
        /\ Decode(aduResponse[c]).Data = <<0, 3, 0, 32>>

\* The steps of caller c while it runs Toggle: the first operation is
\* ReadCoils of one coil at the view's address; the only operation that may
\* follow is WriteSingleCoil at the same address, started after the read
\* returned nil, with the negation of the bit the read's response carried, and
\* encoded as such; nothing follows the write; Toggle returns the error of the
\* operation it ran last, and never writes after a read that failed.
C15_ToggleStep(c) ==
    /\ (view[c].op = "none" /\ view'[c].op = "Toggle") =>
            call'[c] = Op2("ReadCoils", view'[c].address, 1)
    /\ (view[c].op = "Toggle" /\ call'[c] # call[c]) =>
            \/ /\ pc[c] = "vdone"
               /\ call'[c] = NoCall
            \/ /\ pc[c] = "done" /\ call[c].op = "ReadCoils" /\ result[c].err = "nil"
               /\ call'[c] =
                    [NoCall EXCEPT !.op = "WriteSingleCoil",
                                   !.address = view[c].address,
                                   !.coil = (Decode(aduResponse[c]).Data[2] % 2 = 0)]
               /\ Decode(aduRequest'[c]).FunctionCode = FuncCodeWriteSingleCoil
               /\ Decode(aduRequest'[c]).Data =
                    <<view[c].address \div 256, view[c].address % 256,
                      IF Decode(aduResponse[c]).Data[2] % 2 = 0 THEN 255 ELSE 0, 0>>
    /\ (view[c].op = "Toggle" /\ pc[c] # "vdone" /\ pc'[c] = "vdone") =>
            /\ pc[c] = "done"
            /\ result'[c].err = result[c].err /\ result'[c].e = result[c].e
            /\ result'[c].exc = result[c].exc
            /\ call[c].op = "ReadCoils" => result[c].err # "nil"
            /\ Cardinality(CallsTo(tlog[c], "Write")) <= 1

\* C15: Toggle performs two exchanges in this order: ReadCoils of quantity 1 at
\* the coil's address, then WriteSingleCoil at the same address with the
\* negation of the bit read; when the read fails Toggle returns that error
\* and writes nothing.
C15_ToggleReadThenWrite == [][\A c \in Callers : C15_ToggleStep(c)]_vars

\* Toggle returned nil after its second exchange, the write of true.
C15_Witness ==
    \E c \in Callers :
        /\ view[c].op = "Toggle" /\ pc[c] = "vdone"
        /\ call[c].op = "WriteSingleCoil" /\ call[c].coil
        /\ result[c].err = "nil"
        /\ Cardinality(CallsTo(tlog[c], "Write")) = 1

\* Caller c runs Toggle, its read has returned and its write has not locked yet.
C16_Between(c) ==
    /\ view[c].op = "Toggle"
    /\ \/ pc[c] = "done" /\ call[c].op = "ReadCoils"
       \/ pc[c] = "lock" /\ call[c].op = "WriteSingleCoil"

\* C16: Toggle is not atomic: between its read exchange and its write exchange
\* the caller does not hold the mutex, any other caller may take it, and what
\* the other callers do in between changes nothing in the write Toggle has
\* decided on: it writes the negation of the value it read.
C16_ToggleNotAtomic ==
    /\ [](\A c \in Callers : C16_Between(c) => mu # c)
    /\ [][\A c \in Callers :
            (C16_Between(c) /\ pc[c] = "lock" /\ pc'[c] # "idle") =>
                /\ call'[c] = call[c]
                /\ aduRequest'[c] = aduRequest[c]]_vars

\* Toggle read the coil as off and waits for the mutex with its write of ON
\* encoded, while another caller, which took the mutex after Toggle's read,
\* has written the same coil and read the device's answer.
C16_Witness ==
    \E c, d \in Callers :
        /\ c # d
        /\ C16_Between(c) /\ pc[c] = "lock" /\ call[c].coil
        /\ Decode(aduRequest[c]).Data = <<0, 1, 255, 0>>
        /\ view[d].op = "none" /\ call[d].op = "WriteSingleCoil"
        /\ call[d].address = call[c].address
        /\ mu = d /\ pc[d] = "verify"

\* The steps of caller c as far as the unit id goes: a request is encoded
\* with the SlaveID of that moment; as long as the operation lasts, no step of
\* any caller, SetSlaveID included, changes the frame; the frame written is
\* that frame (a device that answers in kind answers with its unit id); and
\* the response is verified against it: a response is refused for its unit id
\* only when it differs from the one in the frame, and accepted only when it
\* is the same.
C17_UnitIdStep(c) ==
    /\ (aduRequest'[c] # aduRequest[c] /\ aduRequest'[c] # <<>>) =>
            /\ UnitOf(aduRequest'[c]).value = SlaveID
            /\ pc'[c] = "lock"
    /\ (aduRequest[c] # <<>> /\ pc[c] \in {"lock"} \cup LockedPCs) =>
            aduRequest'[c] = aduRequest[c]
    /\ (pc[c] = "write" /\ pc'[c] = "read") =>
            /\ tlog'[c][Len(tlog'[c])] = Entry("Write", "nil", Len(aduRequest[c]))
            /\ mode # "single" =>
                    UnitOf(wire').value = UnitOf(aduRequest[c]).value
    /\ (pc[c] = "verify" /\ pc'[c] = "done" /\ Len(aduResponse[c]) >= 9
        /\ UnitOf(aduResponse[c]).err = "nil") =>
            /\ (result'[c].err = "verify" /\ result'[c].e = "slaveid") =>
                    UnitOf(aduResponse[c]).value # UnitOf(aduRequest[c]).value
            /\ result'[c].err \in {"nil", "modbus"} =>
                    UnitOf(aduResponse[c]).value = UnitOf(aduRequest[c]).value

\* C17: the unit id is read once per request, when it is encoded: the frame
\* written and the frame the response is verified against carry that unit id,
\* and a SetSlaveID made after the encoding changes only requests encoded later.
C17_UnitIdReadOnce == [][\A c \in Callers : C17_UnitIdStep(c)]_vars

\* A request encoded for unit id 0 has been written and answered by unit id 0,
\* and is about to be verified, after another caller set SlaveID to 26.
C17_Witness ==
    \E c \in Callers :
        /\ pc[c] = "verify" /\ SlaveID = 26
        /\ UnitOf(aduRequest[c]).value = 0
        /\ Verify(aduRequest[c], aduResponse[c]) = "nil"
        /\ UnitOf(aduResponse[c]).value = 0

\* The frame the device encoded for caller c.
C18_Encoded(c) == Encode(call[c].address, PDU(call[c].value, call[c].bytes))

\* C18: for every unit id and every ProtocolDataUnit with data of 0 to 252
\* bytes, Decode(Encode(unitId, pdu)) returns no error and a PDU with the same
\* function code and data, and the frame passes Verify against any request
\* frame encoded with the same unit id.
C18_RoundTrip ==
    \A c \in Callers :
        (pc[c] = "done" /\ call[c].op = "Encode" /\ aduResponse[c] = C18_Encoded(c)) =>
            /\ Decode(aduResponse[c]) =
                [err |-> "nil", FunctionCode |-> call[c].value, Data |-> call[c].bytes]
            /\ \A request \in CodecRequests :
                Verify(Encode(call[c].address, request), aduResponse[c]) = "nil"
            /\ (UnitOf(aduRequest[c]).value = call[c].address) =
                    (Verify(aduRequest[c], aduResponse[c]) = "nil")
            /\ UnitOf(aduRequest[c]).value = call[c].address =>
                    result[c] = [err |-> "nil", e |-> "nil",
                                 FunctionCode |-> call[c].value, Data |-> call[c].bytes]

\* A PDU with function code 255 and data of the greatest length came back
\* unchanged from unit id 255.
C18_Witness ==
    \E c \in Callers :
        /\ pc[c] = "done" /\ call[c].op = "Encode"
        /\ call[c].address = 255 /\ call[c].value = 255
        /\ Len(call[c].bytes) = MaxDataBytes
        /\ aduResponse[c] = C18_Encoded(c)
        /\ result[c].err = "nil" /\ result[c].Data = call[c].bytes

\* Hexadecimal digits and their values, and the k-th byte a frame spells
\* after ':' (1 the unit id, 2 the function code, the last one the checksum).
C19_HexDigit(ch) == ch \in (48..57) \cup (65..70) \cup (97..102)
C19_Value(ch) == IF ch <= 57 THEN ch - 48 ELSE IF ch <= 70 THEN ch - 55 ELSE ch - 87
C19_Byte(adu, k) == 16 * C19_Value(adu[2 * k]) + C19_Value(adu[2 * k + 1])
C19_Count(adu) == (Len(adu) - 3) \div 2
C19_AllHex(adu) == \A i \in 2..(Len(adu) - 2) : C19_HexDigit(adu[i])

\* The checksum byte is the two's complement of the sum of the other bytes:
\* all the bytes together add up to 0 modulo 256.
C19_ChecksumMatches(adu) ==
    sumRange([k \in 1..C19_Count(adu) |-> C19_Byte(adu, k)], 1, C19_Count(adu)) = 0

\* The frame differs from the one that was encoded in the value of one byte.
C19_OneByteChanged(adu, encoded) ==
    /\ Len(adu) = Len(encoded)
    /\ C19_AllHex(adu)
    /\ Cardinality({k \in 1..C19_Count(adu) :
                        C19_Byte(adu, k) # C19_Byte(encoded, k)}) = 1

\* C19: for a frame that passed Verify, Decode returns an error if and only if
\* a field is not valid hexadecimal or the transmitted checksum differs from
\* the LRC recomputed over unit id, function code and data; a valid frame
\* with the value of one byte of unit id, function code, data or checksum
\* changed is rejected.
C19_DecodeErrors ==
    \A c \in Callers :
        (pc[c] = "done" /\ call[c].op = "Encode" /\ result[c].err # "verify") =>
            /\ result[c].err \in {"nil", "decode"}
            /\ (result[c].err = "decode") =
                    (~C19_AllHex(aduResponse[c]) \/ ~C19_ChecksumMatches(aduResponse[c]))
            /\ (result[c].e = "lrc") =
                    (C19_AllHex(aduResponse[c]) /\ ~C19_ChecksumMatches(aduResponse[c]))
            /\ C19_OneByteChanged(aduResponse[c], C18_Encoded(c)) =>
                    result[c].err = "decode" /\ result[c].e = "lrc"

\* A frame whose unit id byte alone was changed passed Verify against a
\* request of that unit id, and Decode refused its checksum.
C19_Witness ==
    \E c \in Callers :
        /\ pc[c] = "done" /\ call[c].op = "Encode"
        /\ result[c].err = "decode" /\ result[c].e = "lrc"
        /\ C19_OneByteChanged(aduResponse[c], C18_Encoded(c))
        /\ C19_Byte(aduResponse[c], 1) # call[c].address
        /\ C19_Byte(aduResponse[c], 1) = C19_Byte(aduRequest[c], 1)

\* What makes Verify refuse a response: fewer than 9 bytes, an even length,
\* no ':' at the start, no CR LF at the end, or unit id characters that do
\* not spell the request's unit id.
C20_Refused(request, response) ==
    LET n == Len(response)
    IN  \/ n < 9
        \/ n % 2 = 0
        \/ response[1] # 58
        \/ response[n - 1] # 13 \/ response[n] # 10
        \/ ~(/\ C19_HexDigit(response[2]) /\ C19_HexDigit(response[3])
             /\ C19_Byte(response, 1) = C19_Byte(request, 1))

\* C20: Verify returns an error for every response shorter than 9 bytes, of
\* even length, not starting with ':', not ending with CR LF, or whose unit
\* id is not the request's, and no error for every other response; Decode is
\* applied only after Verify returned nil, so only to frames of odd length at
\* least 9, where its slices adu[1:], adu[3:], adu[5:len-4] and adu[len-4:]
\* are in range and the data has an even number of characters.
C20_VerifyThenDecode ==
    \A c \in Callers :
        (Returned(c) /\ result[c].err \notin {"arg", "transport", "none"}) =>
            /\ (result[c].err = "verify") = C20_Refused(aduRequest[c], aduResponse[c])
            /\ (Verify(aduRequest[c], aduResponse[c]) # "nil") =
                    C20_Refused(aduRequest[c], aduResponse[c])
            /\ result[c].err # "verify" =>
                /\ Len(aduResponse[c]) >= 9 /\ Len(aduResponse[c]) % 2 = 1
                /\ 5 <= Len(aduResponse[c]) - 4
                /\ (Len(aduResponse[c]) - 4 - 5) % 2 = 0
                /\ Len(aduResponse[c]) - 4 + 2 <= Len(aduResponse[c])

\* A response of even length, at least 9 bytes, with ':' and CR LF in place
\* and the request's unit id, was refused by Verify.
C20_Witness ==
    \E c \in Callers :
        /\ pc[c] = "done" /\ call[c].op \in RawOps
        /\ result[c].err = "verify" /\ result[c].e = "even"
        /\ Len(aduResponse[c]) >= 10
        /\ aduResponse[c][1] = 58
        /\ aduResponse[c][Len(aduResponse[c])] = 10
        /\ C19_Byte(aduResponse[c], 1) = C19_Byte(aduRequest[c], 1)

\* The bytes of a up to and including its last non-zero byte.
C21_Stripped(a) ==
    LET nz == {i \in 1..Len(a) : a[i] # 0}
    IN  IF nz = {} THEN <<>>
        ELSE Slice(a, 0, CHOOSE i \in nz : \A j \in nz : j <= i)

\* C21: ReadString on the input and holding register views returns the
\* bytes of the registers read, high byte of each register first, with the
\* trailing zero bytes stripped: every byte up to and including the last
\* non-zero one, unchanged and in order.
C21_TrailingZerosStripped ==
    \A c \in Callers :
        (pc[c] = "vdone" /\ view[c].op \in {"ReadString", "InputReadString"}
         /\ result[c].err = "nil"
         /\ Len(Decode(aduResponse[c]).Data) = 1 + 2 * view[c].count) =>
            LET Data == Decode(aduResponse[c]).Data
            IN  result[c].s = C21_Stripped(Slice(Data, 1, Len(Data)))

\* Registers 0x0041 0x4200 were read and ReadString returned "AB": the zero
\* byte in front is gone with the trailing one.
C21_LeadingZeroDropped ==
    \E c \in Callers :
        /\ pc[c] = "vdone" /\ view[c].op = "ReadString" /\ result[c].err = "nil"
        /\ Decode(aduResponse[c]).Data = <<4, 0, 65, 66, 0>>
        /\ result[c].s = <<65, 66>>

\* The number of 16-bit words of the string a view writes.
C22_Words(v) == (Len(v.bytes) + 1) \div 2

\* WriteString, for a number of words between lo and hi, has started one
\* WriteMultipleRegisters at the view's address with that many words, and at
\* its return no more than one request has been written.
C22_Exchange(c) ==
    /\ call[c].op = "WriteMultipleRegisters"
    /\ call[c].address = view[c].address
    /\ Len(call[c].values) = C22_Words(view[c])
    /\ result[c].err \notin {"arg", "length"}
    /\ aduRequest[c] # <<>>
    /\ pc[c] = "lock" =>
        /\ Decode(aduRequest[c]).FunctionCode = FuncCodeWriteMultipleRegisters
        /\ Slice(Decode(aduRequest[c]).Data, 0, 5) =
            <<view[c].address \div 256, view[c].address % 256,
              C22_Words(view[c]) \div 256, C22_Words(view[c]) % 256,
              2 * C22_Words(view[c])>>
    /\ Cardinality(CallsTo(tlog[c], "Write")) <= 1

\* WriteString has returned a local error and nothing was sent.
C22_Local(c, err) ==
    /\ pc[c] \in {"done", "vdone"}
    /\ result[c].err = err
    /\ tlog[c] = <<>>
    /\ aduRequest[c] = <<>>

\* C22 as stated: more words than the view's count give a local error and no
\* transport call; from 1 to count words give one WriteMultipleRegisters
\* exchange at the view's address with that many words.
C22_WithinCapacity ==
    \A c \in Callers :
        (view[c].op = "WriteString" /\ pc[c] # "idle") =>
            /\ C22_Words(view[c]) > view[c].count => C22_Local(c, "length")
            /\ C22_Words(view[c]) \in 1..view[c].count => C22_Exchange(c)

\* C22, amended: ... from 1 to the smaller of count and 123 words give the
\* exchange; more than 123 words within the count are refused by
\* WriteMultipleRegisters itself, again without any transport call.
C22_WithinCapacityAndLimit ==
    \A c \in Callers :
        (view[c].op = "WriteString" /\ pc[c] # "idle") =>
            /\ C22_Words(view[c]) > view[c].count =>
                    C22_Local(c, "length") /\ call[c] = NoCall
            /\ (C22_Words(view[c]) <= view[c].count /\ C22_Words(view[c]) \in 1..123) =>
                    C22_Exchange(c)
            /\ (C22_Words(view[c]) <= view[c].count /\ C22_Words(view[c]) > 123) =>
                    C22_Local(c, "arg")

\* A view of 246 registers was given a string of 247 bytes, 124 words within
\* its capacity, and WriteString returned the quantity error of
\* WriteMultipleRegisters without a transport call.
C22_Witness ==
    \E c \in Callers :
        /\ view[c].op = "WriteString" /\ pc[c] = "vdone"
        /\ view[c].count = 246 /\ Len(view[c].bytes) = 247
        /\ result[c].err = "arg" /\ tlog[c] = <<>>

\* A Connect made by caller c while a connection is live has one outcome: nil,
\* the connection kept, none opened; the step returns nil and goes on; a
\* connection is opened only when none is held, and a held connection goes
\* away only in Close.
C23_ConnectStep(c) ==
    /\ (pc[c] \in {"connect", "hconnect"} /\ conn) =>
            /\ tConnect(mode, transport, conn) =
                    {[ret |-> "nil", conn |-> TRUE, new |-> FALSE]}
            /\ pc'[c] # pc[c] =>
                /\ conn'
                /\ tlog'[c] = Append(tlog[c], Entry("Connect", "nil", 0))
                /\ pc[c] = "hconnect" => pc'[c] = "done" /\ result'[c].err = "nil"
                /\ pc[c] = "connect" => pc'[c] = AfterConnect
    /\ (~conn /\ conn') =>
            /\ transport # "tcpconn"
            /\ \E d \in Callers : pc[d] \in {"connect", "hconnect"} /\ pc'[d] # pc[d]
    /\ (conn /\ ~conn') => \E d \in Callers : pc[d] = "hclose" /\ pc'[d] = "done"

\* C23 as stated: on each transport, Connect called while a live connection
\* exists returns no error and leaves the connection in place without opening
\* or dialing a new one, so the operations on a connected session open at most
\* one connection in total.
C23_ConnectIdempotent == [][\A c \in Callers : C23_ConnectStep(c)]_vars

\* The serial port's SetReadTimeout, asked for another timeout than the
\* port's, closes the port and opens it again.
C23_Reopening(c) ==
    /\ transport = "serial" /\ pc[c] = "settimeout" /\ pc'[c] # pc[c]
    /\ conn /\ ReadTimeout # Timeout

\* The steps of caller c as the code takes them: Connect on a live connection
\* as above; a connection comes into being where none was only in Connect;
\* a held connection goes away, or gives way to a new one, only in Close and
\* in a reopening by the serial port's SetReadTimeout.
C23_ConnectOrReopenStep(c) ==
    /\ (pc[c] \in {"connect", "hconnect"} /\ conn) =>
            /\ tConnect(mode, transport, conn) =
                    {[ret |-> "nil", conn |-> TRUE, new |-> FALSE]}
            /\ pc'[c] # pc[c] =>
                /\ conn' /\ ReadTimeout' = ReadTimeout
                /\ tlog'[c] = Append(tlog[c], Entry("Connect", "nil", 0))
                /\ pc[c] = "hconnect" => pc'[c] = "done" /\ result'[c].err = "nil"
                /\ pc[c] = "connect" => pc'[c] = AfterConnect
    /\ (~conn /\ conn') =>
            /\ transport # "tcpconn"
            /\ \E d \in Callers : pc[d] \in {"connect", "hconnect"} /\ pc'[d] # pc[d]
    /\ ((conn /\ ~conn') \/ ReadTimeout' # ReadTimeout) =>
            \E d \in Callers :
                \/ pc[d] = "hclose" /\ pc'[d] = "done" /\ ReadTimeout' = ReadTimeout
                \/ C23_Reopening(d)

\* C23, amended: Connect called while a live connection exists returns no
\* error and leaves the connection in place without opening a new one; a
\* session that is connected opens another connection only when the serial
\* port's SetReadTimeout is asked for a timeout that is not the port's.
C23_ConnectIdempotentButReopen ==
    [][\A c \in Callers : C23_ConnectOrReopenStep(c)]_vars

\* The handler's Connect returned nil on a caller-supplied connection, which
\* is never opened by the transport: it was live when Connect was called.
C23_Witness ==
    \E c \in Callers :
        /\ transport = "tcpconn" /\ conn
        /\ pc[c] = "done" /\ call[c].op = "Connect" /\ result[c].err = "nil"
        /\ tlog[c] = <<Entry("Connect", "nil", 0)>>

\* The steps of caller c on a transport without a connection.  Over a
\* caller-supplied connection: Connect returns the error, an operation
\* returns it having called neither Write nor Read nor anything else, the
\* handler's Connect returns it, Close returns nil, and the transport stays
\* without a connection.  On the other two a Connect may open one.
C24_ClosedStep(c) ==
    /\ (transport = "tcpconn" /\ ~conn) =>
            /\ ~conn'
            /\ tConnect(mode, transport, conn) =
                    {[ret |-> "closed", conn |-> FALSE, new |-> FALSE]}
            /\ (pc[c] = "connect" /\ pc'[c] # pc[c]) =>
                    /\ pc'[c] = "done"
                    /\ result'[c] = [Result("transport") EXCEPT !.e = "closed"]
                    /\ tlog'[c] = <<Entry("Connect", "closed", 0)>>
                    /\ mu' = 0
            /\ (pc[c] = "hconnect" /\ pc'[c] # pc[c]) =>
                    /\ pc'[c] = "done"
                    /\ result'[c] = [Result("transport") EXCEPT !.e = "closed"]
            /\ (pc[c] = "hclose" /\ pc'[c] # pc[c]) =>
                    /\ pc'[c] = "done"
                    /\ result'[c] = Result("nil")
    /\ (transport = "tcpconn" /\ pc[c] = "hclose" /\ pc'[c] # pc[c]) => ~conn'
    /\ (transport # "tcpconn" /\ ~conn /\ pc[c] \in {"connect", "hconnect"}) =>
            [ret |-> "nil", conn |-> TRUE, new |-> TRUE]
                \in tConnect(mode, transport, conn)

\* C24: after Close on a session over a caller-supplied connection the
\* transport never reconnects: every later Connect returns an error, every
\* later operation fails with it without a Write or a Read, and a second
\* Close returns nil; the serial and TCP-address transports connect anew on a
\* Connect that follows Close.
C24_NoReconnect == [][\A c \in Callers : C24_ClosedStep(c)]_vars

\* After Close, an operation on the session over a caller-supplied connection
\* returned the error of Connect and called nothing else.
C24_Witness ==
    \E c \in Callers :
        /\ transport = "tcpconn" /\ ~conn
        /\ pc[c] = "done" /\ call[c].op \in RawOps
        /\ result[c].err = "transport" /\ result[c].e = "closed"
        /\ tlog[c] = <<Entry("Connect", "closed", 0)>>

\* The bytes returned by the Reads of a log, added up.
RECURSIVE C25_BytesRead(_, _)
C25_BytesRead(log, i) ==
    IF i = 0 THEN 0
    ELSE (IF log[i].fn = "Read" THEN log[i].n ELSE 0) + C25_BytesRead(log, i - 1)

\* Where reading stops: a Read of zero bytes, 513 bytes accumulated, or more
\* than 3 bytes accumulated that end in CR LF.
C25_Stops(data, n) ==
    \/ n = 0
    \/ Len(data) >= 513
    \/ Len(data) > 3 /\ data[Len(data) - 1] = 13 /\ data[Len(data)] = 10

\* A Read of caller c that returns n bytes appends the next n bytes of the
\* stream to what was read before, keeps the total within 513, and is the
\* last Read exactly when reading stops there; after the last Read the
\* response is left as it is and nothing more is read.
C25_ReadStep(c) ==
    /\ (pc[c] = "read" /\ pc'[c] \in {"read", "verify"} /\ tlog'[c] # tlog[c]) =>
            LET n == tlog'[c][Len(tlog'[c])].n
            IN  /\ tlog'[c] = Append(tlog[c], Entry("Read", "nil", n))
                /\ n <= Len(wire)
                /\ aduResponse'[c] = aduResponse[c] \o [i \in 1..n |-> wire[i]]
                /\ Len(aduResponse'[c]) <= 513
                /\ (pc'[c] = "verify") = C25_Stops(aduResponse'[c], n)
    /\ (pc[c] = "verify" /\ pc'[c] # "idle") =>
            /\ tlog'[c] = tlog[c]
            /\ aduResponse'[c] = aduResponse[c]

\* C25: after the single Write, Read is called until a Read returns zero
\* bytes, or 513 bytes are accumulated, or more than 3 bytes are accumulated
\* and the last two are CR LF, whichever comes first; no Read follows, the
\* accumulated length stays within 513, and the response is the
\* concatenation, in order, of all the bytes read.
C25_ReadLoop ==
    /\ [](\A c \in Callers :
            pc[c] \in {"read", "verify"} =>
                /\ Cardinality(CallsTo(tlog[c], "Write")) = 1
                /\ Len(aduResponse[c]) = C25_BytesRead(tlog[c], Len(tlog[c]))
                /\ Len(aduResponse[c]) <= 513)
    /\ [][\A c \in Callers : C25_ReadStep(c)]_vars

\* CR and LF arrived in two Reads and the second one ended the reading.
C25_Witness ==
    \E c \in Callers :
        /\ pc[c] = "verify" /\ Len(tlog[c]) >= 2
        /\ tlog[c][Len(tlog[c])] = Entry("Read", "nil", 1)
        /\ tlog[c][Len(tlog[c]) - 1].fn = "Read"
        /\ aduResponse[c][Len(aduResponse[c]) - 1] = 13
        /\ aduResponse[c][Len(aduResponse[c])] = 10

\* C26: the exchange never blocks for good: when every transport call returns,
\* it ends after at most 513 Read calls whatever the Reads return, and the
\* operation comes back to its caller.
C26_ExchangeTerminates ==
    /\ [](\A c \in Callers : Cardinality(CallsTo(tlog[c], "Read")) <= 513)
    /\ \A c \in Callers : (pc[c] \in ExchangePCs) ~> (pc[c] \in {"done", "panic"})

\* A stream that came one byte per Read filled the buffer with the 513th Read.
C26_Witness ==
    \E c \in Callers :
        /\ pc[c] = "verify"
        /\ Cardinality(CallsTo(tlog[c], "Read")) = 513
        /\ Len(aduResponse[c]) = 513
        /\ tlog[c][Len(tlog[c])] = Entry("Read", "nil", 1)

\* C27: in every exchange the handler's timeout is given to the transport,
\* by SetReadTimeout, before each Read of the exchange: no Read without a
\* SetReadTimeout made earlier in the same exchange.
C27_TimeoutBeforeEachRead ==
    \A c \in Callers :
        CallsTo(tlog[c], "Read") # {} =>
            /\ CallsTo(tlog[c], "SetReadTimeout") # {}
            /\ \A j \in CallsTo(tlog[c], "SetReadTimeout") :
                \A i \in CallsTo(tlog[c], "Read") : j < i

\* A handler built with timeout 0 has read a whole response and its exchange
\* made no call to SetReadTimeout.
C27_ReadWithoutTimeout ==
    \E c \in Callers :
        /\ Timeout = 0 /\ pc[c] = "done" /\ result[c].err = "nil"
        /\ Len(tlog[c]) >= 3
        /\ tlog[c][1].fn = "Connect" /\ tlog[c][2].fn = "Write"
        /\ tlog[c][3].fn = "Read" /\ tlog[c][3].n > 0
        /\ CallsTo(tlog[c], "SetReadTimeout") = {}

\* With a timeout above 0 an exchange calls SetReadTimeout once, between
\* Connect and Write, and not again between its Reads.
C27_OncePerExchange ==
    \A c \in Callers :
        (Timeout > 0 /\ CallsTo(tlog[c], "Read") # {}) =>
            /\ CallsTo(tlog[c], "SetReadTimeout") = {2}
            /\ tlog[c][1].fn = "Connect" /\ tlog[c][3].fn = "Write"

\* The transport calls of an exchange in their order: Connect, SetReadTimeout
\* when the timeout is above 0, Write, then Reads; a call that returned an
\* error is the last one.
C28_LogOrder(log) ==
    LET w == IF Timeout > 0 THEN 3 ELSE 2
    IN  \A i \in 1..Len(log) :
            /\ i < Len(log) => log[i].ret = "nil"
            /\ log[i].fn = (CASE i = 1 -> "Connect"
                              [] i = 2 /\ Timeout > 0 -> "SetReadTimeout"
                              [] i = w -> "Write"
                              [] OTHER -> "Read")

\* The step at which an operation that got a response stopped, the steps
\* taken in their order: Verify, Decode, the function code, the empty
\* payload, the operation's own parsing.
C28_StoppedAt(k, request, response) ==
    IF Verify(request, response) # "nil" THEN {"verify"}
    ELSE IF Decode(response).err # "nil" THEN {"decode"}
    ELSE IF Decode(response).FunctionCode # Request(k).FunctionCode THEN {"modbus"}
    ELSE IF Decode(response).Data = <<>> THEN {"empty"}
    ELSE {"nil", "shape", "panic"}

\* C28: the steps of every operation come in the order Encode, Connect,
\* SetReadTimeout (only with a timeout above 0), Write, one or more Reads,
\* Verify, Decode, function code check, empty payload check, parsing, and
\* each runs only if all the earlier ones succeeded.
C28_StepOrder ==
    \A c \in Callers :
        call[c].op \in RawOps =>
            /\ C28_LogOrder(tlog[c])
            /\ tlog[c] # <<>> => aduRequest[c] # <<>>
            /\ pc[c] = "connect" => tlog[c] = <<>>
            /\ pc[c] = "settimeout" => Len(tlog[c]) = 1 /\ Timeout > 0
            /\ pc[c] = "write" => Len(tlog[c]) = (IF Timeout > 0 THEN 2 ELSE 1)
            /\ pc[c] \in {"read", "verify"} =>
                    /\ Len(tlog[c]) >= (IF Timeout > 0 THEN 3 ELSE 2)
                    /\ tlog[c][Len(tlog[c])].ret = "nil"
            /\ pc[c] = "verify" => tlog[c][Len(tlog[c])].fn = "Read"
            /\ pc[c] \in {"done", "panic"} =>
                CASE result[c].err = "arg" -> tlog[c] = <<>> /\ aduRequest[c] = <<>>
                  [] result[c].err = "transport" ->
                        /\ tlog[c] # <<>>
                        /\ tlog[c][Len(tlog[c])].ret = result[c].e
                        /\ result[c].e # "nil"
                  [] OTHER ->
                        /\ tlog[c][Len(tlog[c])].fn = "Read"
                        /\ tlog[c][Len(tlog[c])].ret = "nil"
                        /\ result[c].err \in
                            C28_StoppedAt(call[c], aduRequest[c], aduResponse[c])

\* An exception response without a payload ended in the ModbusError of the
\* function code check, which comes before the empty payload check.
C28_Witness ==
    \E c \in Callers :
        /\ pc[c] = "done" /\ call[c].op \in RawOps /\ result[c].err = "modbus"
        /\ Decode(aduResponse[c]).Data = <<>>
        /\ Len(tlog[c]) >= 4 /\ tlog[c][2].fn = "SetReadTimeout"

\* Where the byte-count field of a request's data lies: after the address
\* and quantity words; 0 for the requests that have none.
C29_CountAt(op) ==
    CASE op \in {"WriteMultipleCoils", "WriteMultipleRegisters"} -> 5
      [] op = "ReadWriteMultipleRegisters" -> 9
      [] OTHER -> 0

C29_Limits(c) ==
    LET data == Request(call[c]).Data
        at == C29_CountAt(call[c].op)
    IN  /\ Len(data) <= 252
        /\ at > 0 => data[at] = Len(data) - at
        /\ Len(aduRequest[c]) <= asciiMaxSize

\* C29: every request an operation builds from arguments that passed its
\* validation has at most 252 data bytes, a byte-count field equal to the
\* number of value bytes after it, and an encoded frame of at most 513 bytes.
C29_RequestWithinLimits ==
    \A c \in Callers :
        (call[c].op \in RawOps /\ aduRequest[c] # <<>>) => C29_Limits(c)

\* The same limits for the calls whose value bytes are two per register to
\* write.
C29_WithinLimitsWhenValueMatches ==
    \A c \in Callers :
        ( /\ call[c].op \in RawOps /\ aduRequest[c] # <<>>
          /\ call[c].op = "ReadWriteMultipleRegisters" =>
                Len(call[c].bytes) = 2 * call[c].writeQuantity ) => C29_Limits(c)

\* ReadWriteMultipleRegisters with 3 registers to write and 256 value bytes
\* was accepted, and its frame of 539 bytes went to the transport.
C29_Oversized ==
    \E c \in Callers :
        /\ call[c].op = "ReadWriteMultipleRegisters"
        /\ call[c].writeQuantity = 3 /\ Len(call[c].bytes) = 256
        /\ Len(Request(call[c]).Data) = 265 /\ Request(call[c]).Data[9] = 0
        /\ Len(aduRequest[c]) = 539
        /\ Cardinality(CallsTo(tlog[c], "Write")) = 1

\* The sum of data[lo..hi] in the integers, without wraparound.
RECURSIVE C30_SumRange(_, _, _)
C30_SumRange(data, lo, hi) ==
    IF lo > hi THEN 0
    ELSE IF lo = hi THEN data[lo]
    ELSE C30_SumRange(data, lo, (lo + hi) \div 2)
            + C30_SumRange(data, (lo + hi) \div 2 + 1, hi)

C30_Sum(data) == C30_SumRange(data, 1, Len(data))

\* data[lo..hi] folded into the accumulator, a uint8, by one pushByte per
\* byte, in their order.
RECURSIVE C30_PushRange(_, _, _, _)
C30_PushRange(sum, data, lo, hi) ==
    IF lo > hi THEN sum
    ELSE IF lo = hi THEN pushByte(sum, data[lo])
    ELSE LET half == C30_PushRange(sum, data, lo, (lo + hi) \div 2)
         IN  IF half \in 0..255
             THEN C30_PushRange(half, data, (lo + hi) \div 2 + 1, hi)
             ELSE half

C30_PushEach(data) == C30_PushRange(0, data, 1, Len(data))

\* The bytes the device's frame carries before its checksum.
C30_Folded(c) == <<call[c].address, call[c].value>> \o call[c].bytes

C30_Checksum(bytes) ==
    LET bulk == lrcValue(pushBytes(0, bytes))
        each == lrcValue(C30_PushEach(bytes))
        total == C30_Sum(bytes)
    IN  /\ bulk = (256 - (total % 256)) % 256
        /\ each = bulk
        /\ (total + bulk) % 256 = 0

\* C30: the checksum of the bytes folded into a reset accumulator is
\* (256 - (sum mod 256)) mod 256, folding one byte at a time and in bulk give
\* the same value, and sum plus checksum is 0 modulo 256; the frame Encode
\* builds carries this value, and 02 02 00 6B 00 03 has the checksum 8E.
C30_LRC ==
    /\ C30_Checksum(<<2, 2, 0, 107, 0, 3>>)
    /\ lrcValue(pushBytes(0, <<2, 2, 0, 107, 0, 3>>)) = 142
    /\ \A c \in Callers :
        (mode = "codec" /\ pc[c] = "answered") =>
            /\ C30_Checksum(C30_Folded(c))
            /\ CodecBytes(wire) =
                C30_Folded(c) \o <<(256 - (C30_Sum(C30_Folded(c)) % 256)) % 256>>

\* A frame of 252 data bytes whose sum wrapped around many times was encoded.
C30_Witness ==
    \E c \in Callers :
        /\ mode = "codec" /\ pc[c] = "answered"
        /\ Len(call[c].bytes) = MaxDataBytes
        /\ C30_Sum(C30_Folded(c)) > 255
        /\ CodecBytes(wire)[Len(CodecBytes(wire))] =
                lrcValue(C30_PushEach(C30_Folded(c)))

\* A FIFO payload as ReadFIFOQueue's comment lays it out: a 2-byte byte count
\* equal to the number of bytes after that field, a 2-byte FIFO count n of at
\* most 31, then n registers of 2 bytes.
C31_WellFormed(Data) ==
    /\ Len(Data) >= 4
    /\ 256 * Data[1] + Data[2] = Len(Data) - 2
    /\ 256 * Data[3] + Data[4] <= 31
    /\ Len(Data) - 4 = 2 * (256 * Data[3] + Data[4])

\* The registers of a well-formed FIFO payload.
C31_Registers(Data) ==
    [i \in 1..((Len(Data) - 4) \div 2) |-> 256 * Data[3 + 2 * i] + Data[4 + 2 * i]]

C31_WellFormedAnswer(c) ==
    /\ pc[c] \in {"done", "panic"} /\ call[c].op = "ReadFIFOQueue" /\ Accepted(c)
    /\ Decode(aduResponse[c]).FunctionCode = FuncCodeReadFIFOQueue
    /\ C31_WellFormed(Decode(aduResponse[c]).Data)

\* C31: ReadFIFOQueue succeeds on every well-formed FIFO response (function
\* code 0x18, byte count equal to the bytes after it, FIFO count n <= 31, n
\* registers) and returns exactly those n values.
C31_WellFormedFIFOAccepted ==
    \A c \in Callers :
        C31_WellFormedAnswer(c) =>
            /\ pc[c] = "done"
            /\ result[c].err = "nil"
            /\ result[c].words = C31_Registers(Decode(aduResponse[c]).Data)

\* What the code does with every well-formed FIFO response: its byte count
\* is not len(Data) - 1, so the read returns the size error and no values.
C31_WellFormedFIFORefused ==
    \A c \in Callers :
        C31_WellFormedAnswer(c) =>
            /\ pc[c] = "done"
            /\ result[c].err = "shape"
            /\ NoValues(result[c])

\* The well-formed response 00 06 00 02 01 B8 12 84 (two registers, 440 and
\* 4740) was refused.
C31_Witness ==
    \E c \in Callers :
        /\ C31_WellFormedAnswer(c)
        /\ Decode(aduResponse[c]).Data = <<0, 6, 0, 2, 1, 184, 18, 132>>
        /\ C31_Registers(Decode(aduResponse[c]).Data) = <<440, 4740>>
        /\ result[c].err = "shape" /\ result[c].words = <<>>

\* Caller c's SetReadTimeout on the serial port has just returned nil: the
\* exchange is about to Write.  The port was open before the call, for the
\* Connect before it returned nil.
C32_TimeoutSet(c) ==
    /\ transport = "serial" /\ pc[c] = "write"
    /\ Len(tlog[c]) = 2
    /\ tlog[c][1] = Entry("Connect", "nil", 0)
    /\ tlog[c][2] = Entry("SetReadTimeout", "nil", 0)

\* C32: when the serial port's SetReadTimeout returns no error on a port that
\* was open, the port is still open and has the new timeout, so the Write
\* that follows operates on an open port; a failed reopening is an error.
C32_PortOpenAfterSetReadTimeout ==
    \A c \in Callers :
        C32_TimeoutSet(c) => conn /\ ReadTimeout = Timeout

\* What the code keeps: after a SetReadTimeout that returned nil the port is
\* open with the new timeout, or gone with the timeout it had.
C32_ReopenedOrGone ==
    \A c \in Callers :
        C32_TimeoutSet(c) => (conn <=> ReadTimeout = Timeout)

\* The port had ReadTimeout 10, the handler asked for 5, the reopening
\* failed, SetReadTimeout returned nil, and the exchange is about to Write
\* on a port that is not open.
C32_Witness ==
    \E c \in Callers :
        /\ C32_TimeoutSet(c)
        /\ mode = "reopen" /\ Timeout = 5 /\ ReadTimeout = 10
        /\ ~conn
        /\ tWrite(mode, transport, conn) = {"panic", "write"}

====
